---------------------------- MODULE Spec2Model ----------------------------
(***************************************************************************)
(* Model of the BMSTU teachers tool: calendar parsing, teacher-name        *)
(* canonicalisation, the teacher index build and the search over it; of    *)
(* the schedule parser for the API; and of the handlers of the web         *)
(* application.                                                            *)
(*                                                                         *)
(* A Python str is modelled as a sequence of Unicode code points, so the   *)
(* character classes of the regular expressions of the source are sets of  *)
(* numbers ([A-Ya] is 1040..1071) and a regular expression is a small tree  *)
(* evaluated by the backtracking matcher below, in Python's priority       *)
(* order (leftmost, greedy).  Offsets are 0-based as in Python: offset i   *)
(* lies before character s[i+1].                                           *)
(***************************************************************************)
EXTENDS Integers, Sequences, FiniteSets, TLC

VARIABLES
    \* canonicaliser harness (SpecNorm)
    name, canon, recanon, variant, vcanon, nstage,
    \* search harness (SpecSearch)
    idx, idx_exists, query, topn, result, tresult, sstage,
    \* parse_ics, line by line (SpecParse)
    ics_text, lines, group_code, ev, in_event, lessons, ln_no, pstage,
    \* build_index and aggregate_teachers_from_groups (Spec)
    prog, served, pending, completed, groups_raw, teachers_index, index_file,
    groups_file, replies, group_no, teacher_schedule, pc,
    \* _parse_lesson on the time fields of an API item (SpecLesson)
    raw_item, start_time, end_time, lstage,
    \* the handlers of the web application (SpecApp)
    route, upstream, outcome, astage

nvars == <<name, canon, recanon, variant, vcanon, nstage>>
svars == <<idx, idx_exists, query, topn, result, tresult, sstage>>
pvars == <<ics_text, lines, group_code, ev, in_event, lessons, ln_no, pstage>>
bvars == <<prog, served, pending, completed, groups_raw, teachers_index, index_file,
           groups_file, replies, group_no, teacher_schedule, pc>>
lvars == <<raw_item, start_time, end_time, lstage>>
avars == <<route, upstream, outcome, astage>>
vars == <<nvars, svars, pvars, bvars, lvars, avars>>
\* what the actions of one specification leave alone
NormOthers == <<svars, pvars, bvars, lvars, avars>>
SearchOthers == <<nvars, pvars, bvars, lvars, avars>>
ParseOthers == <<nvars, svars, bvars, lvars, avars>>
BuildOthers == <<nvars, svars, pvars, lvars, avars>>
LessonOthers == <<nvars, svars, pvars, bvars, avars>>
AppOthers == <<nvars, svars, pvars, bvars, lvars>>

(***************************************************************************)
(* Characters                                                              *)
(***************************************************************************)
\* code points of the characters the source names literally
Ch == [sp |-> 32, tab |-> 9, nl |-> 10, dot |-> 46, comma |-> 44, semi |-> 59,
       colon |-> 58, dash |-> 45, endash |-> 8211, nbsp |-> 160, us |-> 95,
       qm |-> 63, slash |-> 47, eq |-> 61,
       YO |-> 1025, yo |-> 1105, YE |-> 1045, ye |-> 1077,
       T |-> 84, Z |-> 90, t |-> 116, z |-> 122]

\* \s of Python's re on str, and the characters str.strip() removes
WS == {9, 10, 11, 12, 13, 28, 29, 30, 31, 32, 133, 160, 5760, 8232, 8233, 8239, 8287, 12288}
        \cup (8192..8202)
Digit == 48..57
LatinUpper == 65..90
LatinLower == 97..122
\* Cyrillic [A-Ya] and [a-ya]: the two contiguous ranges, which leave out YO (1025) and yo (1105)
RuUpper == 1040..1071
RuLower == 1072..1103
\* Cyrillic [A-YaYO] and [a-yayo\-]
RuUpperYo == RuUpper \cup {Ch.YO}
RuLowerYoDash == RuLower \cup {Ch.yo, Ch.dash}
\* \w of Python's re on str, restricted to the scripts the model uses
WordChar == Digit \cup LatinUpper \cup LatinLower \cup RuUpper \cup RuLower
              \cup {Ch.YO, Ch.yo, Ch.us}

\* str.lower() and str.upper() on one character
LowerCh(c) ==
    IF c \in LatinUpper \/ c \in RuUpper THEN c + 32
    ELSE IF c = Ch.YO THEN Ch.yo ELSE c
UpperCh(c) ==
    IF c \in LatinLower \/ c \in RuLower THEN c - 32
    ELSE IF c = Ch.yo THEN Ch.YO ELSE c

(***************************************************************************)
(* Evaluation: an operator argument is an expression, evaluated wherever   *)
(* the parameter is used.  An operator that uses a parameter more than     *)
(* once first binds its value, as Python's call by value does:             *)
(*     F(x0) == Only({ body(x) : x \in {x0} })                             *)
(* and \E x \in {x0} : body(x) for a Boolean body.                         *)
(***************************************************************************)
Only(S) == CHOOSE x \in S : TRUE

(***************************************************************************)
(* str operations                                                          *)
(***************************************************************************)
\* s[a:b] for offsets 0 <= a <= b <= len(s)
Slice(s, a, b) == SubSeq(s, a + 1, b)

Lower(s0) == Only({[i \in 1..Len(s) |-> LowerCh(s[i])] : s \in {s0}})
Upper(s0) == Only({[i \in 1..Len(s) |-> UpperCh(s[i])] : s \in {s0}})

\* s.replace(a, b) for single characters a, b
ReplaceCh(s0, a, b) ==
    Only({[i \in 1..Len(s) |-> IF s[i] = a THEN b ELSE s[i]] : s \in {s0}})

\* s.strip(chars): the offsets of the first and past the last kept character
RECURSIVE LStripAt(_, _, _)
LStripAt(s, chars, i) ==
    IF i < Len(s) /\ s[i + 1] \in chars THEN LStripAt(s, chars, i + 1) ELSE i
RECURSIVE RStripAt(_, _, _, _)
RStripAt(s, chars, lo, j) ==
    IF j > lo /\ s[j] \in chars THEN RStripAt(s, chars, lo, j - 1) ELSE j
Strip(s0, chars) ==
    Only({Only({Slice(s, lo, RStripAt(s, chars, lo, Len(s))) : lo \in {LStripAt(s, chars, 0)}})
            : s \in {s0}})

\* sub in s  (substring test)
Contains(s0, sub0) ==
    \E s \in {s0}, sub \in {sub0} :
        \E i \in 0..(Len(s) - Len(sub)) : Slice(s, i, i + Len(sub)) = sub

\* s.startswith(p)
StartsWith(s0, p0) ==
    \E s \in {s0}, p \in {p0} : Len(s) >= Len(p) /\ SubSeq(s, 1, Len(p)) = p

\* s.endswith(p)
EndsWith(s0, p0) ==
    \E s \in {s0}, p \in {p0} :
        Len(s) >= Len(p) /\ SubSeq(s, Len(s) - Len(p) + 1, Len(s)) = p

\* the offset where the token that starts at offset lo ends
RECURSIVE TokenEnd(_, _)
TokenEnd(s, j) == IF j < Len(s) /\ s[j + 1] \notin WS THEN TokenEnd(s, j + 1) ELSE j

\* s.split(): the whitespace-delimited tokens of s
RECURSIVE SplitFrom(_, _)
SplitFrom(s, i) ==
    Only({IF lo = Len(s) THEN <<>>
          ELSE Only({<<Slice(s, lo, hi)>> \o SplitFrom(s, hi) : hi \in {TokenEnd(s, lo)}})
            : lo \in {LStripAt(s, WS, i)}})
SplitWS(s0) == Only({SplitFrom(s, 0) : s \in {s0}})

\* s.find(c) from offset i, for one character: its offset, or -1
RECURSIVE FindCh(_, _, _)
FindCh(s, c, i) ==
    IF i >= Len(s) THEN -1 ELSE IF s[i + 1] = c THEN i ELSE FindCh(s, c, i + 1)

(***************************************************************************)
(* Regular expressions (Python re): trees of                               *)
(*   [t |-> "cls", set |-> S]            one character of S                *)
(*   [t |-> "lit", str |-> w, ic |-> b]  the characters of w in a row      *)
(*                                       (ic: under re.IGNORECASE)         *)
(*   [t |-> "cat", parts |-> <<..>>]     concatenation                     *)
(*   [t |-> "alt", parts |-> <<..>>]     alternation, leftmost first       *)
(*   [t |-> "rep", r |-> x, min, max]    greedy repetition x{min,max}      *)
(*   [t |-> "ncls", set |-> S]           one character not in S            *)
(*   [t |-> "wb"]                        \b                                *)
(*   [t |-> "dollar"]                    $                                 *)
(*   [t |-> "eos"]                       end of the string                 *)
(* Ends(re, s, i) is the sequence of offsets where a match of re starting  *)
(* at offset i can end, in the order the backtracking matcher tries them.  *)
(***************************************************************************)
Cls(S) == [t |-> "cls", set |-> S]
NotCls(S) == [t |-> "ncls", set |-> S]
Cat(ps) == [t |-> "cat", parts |-> ps]
Alt(ps) == [t |-> "alt", parts |-> ps]
Rep(x, lo, hi) == [t |-> "rep", r |-> x, min |-> lo, max |-> hi]
\* max = -1: no upper limit
Star(x) == Rep(x, 0, -1)
Plus(x) == Rep(x, 1, -1)
Opt(x) == Rep(x, 0, 1)
WB == [t |-> "wb"]
EOS == [t |-> "eos"]
Dollar == [t |-> "dollar"]
\* a literal string, and the same under re.IGNORECASE
Lit(str) == [t |-> "lit", str |-> str, ic |-> FALSE]
LitI(str) == [t |-> "lit", str |-> str, ic |-> TRUE]

\* whether character c is one a one-character tree x accepts
Accepts(x, c) == IF x.t = "cls" THEN c \in x.set ELSE c \notin x.set

\* how many characters from offset i on the one-character tree x accepts in a row
RunLen(x, s, i) ==
    CHOOSE n \in 0..(Len(s) - i) :
        /\ \A k \in 1..n : Accepts(x, s[i + k])
        /\ (n = Len(s) - i \/ ~Accepts(x, s[i + n + 1]))

\* x{min,max} for a one-character tree x: the longest run first, then shorter ones
ClassRepEnds(re, s, i) ==
    Only({IF top < re.min THEN <<>>
          ELSE [j \in 1..(top - re.min + 1) |-> i + top - j + 1]
            : top \in {Only({IF re.max >= 0 /\ run > re.max THEN re.max ELSE run
                               : run \in {RunLen(re.r, s, i)}})}})

IsWordAt(s, k) == k >= 1 /\ k <= Len(s) /\ s[k] \in WordChar

RECURSIVE Ends(_, _, _)
RECURSIVE EndsFrom(_, _, _, _)
RECURSIVE CatEnds(_, _, _, _)
RECURSIVE AltEnds(_, _, _, _)
RECURSIVE RepEnds(_, _, _, _)
RECURSIVE RepFrom(_, _, _, _, _)

\* re, s and i are values already bound by the caller
Ends(re, s, i) ==
    CASE re.t = "cls" -> IF i < Len(s) /\ s[i + 1] \in re.set THEN <<i + 1>> ELSE <<>>
      [] re.t = "ncls" -> IF i < Len(s) /\ s[i + 1] \notin re.set THEN <<i + 1>> ELSE <<>>
      [] re.t = "dollar" -> IF i = Len(s) \/ (i = Len(s) - 1 /\ s[Len(s)] = Ch.nl)
                            THEN <<i>> ELSE <<>>
      [] re.t = "wb"  -> IF IsWordAt(s, i) # IsWordAt(s, i + 1) THEN <<i>> ELSE <<>>
      [] re.t = "eos" -> IF i = Len(s) THEN <<i>> ELSE <<>>
      [] re.t = "lit" ->
            IF /\ i + Len(re.str) <= Len(s)
               /\ \A k \in 1..Len(re.str) :
                    \/ s[i + k] = re.str[k]
                    \/ re.ic /\ s[i + k] \in {LowerCh(re.str[k]), UpperCh(re.str[k])}
            THEN <<i + Len(re.str)>> ELSE <<>>
      [] re.t = "cat" -> CatEnds(re.parts, 1, s, <<i>>)
      [] re.t = "alt" -> AltEnds(re.parts, 1, s, i)
      [] re.t = "rep" -> IF re.r.t \in {"cls", "ncls"} THEN ClassRepEnds(re, s, i)
                         ELSE RepEnds(re, s, i, 0)

\* the ends of re from each of the offsets starts[k..], in order
EndsFrom(re, s, starts, k) ==
    IF k > Len(starts) THEN <<>>
    ELSE Only({Ends(re, s, i) : i \in {starts[k]}}) \o EndsFrom(re, s, starts, k + 1)

CatEnds(parts, k, s, starts0) ==
    Only({IF k > Len(parts) \/ starts = <<>> THEN starts
          ELSE Only({CatEnds(parts, k + 1, s, EndsFrom(p, s, starts, 1)) : p \in {parts[k]}})
            : starts \in {starts0}})

AltEnds(parts, k, s, i) ==
    IF k > Len(parts) THEN <<>>
    ELSE Only({Ends(p, s, i) : p \in {parts[k]}}) \o AltEnds(parts, k + 1, s, i)

\* n repetitions done so far: one more first (greedy), then stop here
RepEnds(re, s, i, n) ==
    Only({RepFrom(re, s, more, 1, n + 1) \o (IF n >= re.min THEN <<i>> ELSE <<>>)
            : more \in {IF re.max < 0 \/ n < re.max
                        THEN Only({SelectSeq(Ends(x, s, i), LAMBDA e : e > i) : x \in {re.r}})
                        ELSE <<>>}})

RepFrom(re, s, starts, k, n) ==
    IF k > Len(starts) THEN <<>>
    ELSE Only({RepEnds(re, s, i, n) : i \in {starts[k]}}) \o RepFrom(re, s, starts, k + 1, n)

(***************************************************************************)
(* A pattern is a sequence of trees (its top-level concatenation).  The    *)
(* first successful path of the matcher from offset i is the sequence of   *)
(* the offsets where each part ends: this gives the groups.                *)
(* Path is <<>> for no match, and <<ends>> for a match.                    *)
(***************************************************************************)
RECURSIVE Path(_, _, _, _)
RECURSIVE FirstPath(_, _, _, _, _)
Path(parts, k, s, i) ==
    IF k > Len(parts) THEN << <<>> >>
    ELSE Only({FirstPath(parts, k, s, es, 1) : es \in {Only({Ends(p, s, i) : p \in {parts[k]}})}})

FirstPath(parts, k, s, es, j) ==
    IF j > Len(es) THEN <<>>
    ELSE Only({IF r # <<>> THEN << <<es[j]>> \o r[1] >> ELSE FirstPath(parts, k, s, es, j + 1)
                 : r \in {Path(parts, k + 1, s, es[j])}})

\* a match: where it starts, where each part ends
MatchEnd(m) == IF m.ends = <<>> THEN m.start ELSE m.ends[Len(m.ends)]

\* pattern.search(s, pos) for bound values: <<>> or <<m>>, the leftmost match
SearchAt(parts, s, pos) ==
    Only({IF hits = {} THEN <<>>
          ELSE Only({<<[start |-> i, ends |-> Path(parts, 1, s, i)[1]]>>
                       : i \in {CHOOSE h \in hits : \A o \in hits : h <= o}})
            : hits \in {{i \in pos..Len(s) : Path(parts, 1, s, i) # <<>>}}})

\* pattern.finditer(s) for bound values
RECURSIVE FindIterAt(_, _, _)
FindIterAt(parts, s, pos) ==
    Only({IF m = <<>> THEN <<>>
          ELSE Only({m \o FindIterAt(parts, s, IF e = m[1].start THEN e + 1 ELSE e)
                       : e \in {MatchEnd(m[1])}})
            : m \in {SearchAt(parts, s, pos)}})

\* pattern.match(s): <<>> or <<m>>
Match(parts0, s0) ==
    Only({IF p = <<>> THEN <<>> ELSE <<[start |-> 0, ends |-> p[1]]>>
            : p \in {Only({Path(parts, 1, s, 0) : parts \in {parts0}, s \in {s0}})}})

\* pattern.search(s): <<>> or <<m>>, the leftmost match
Search(parts0, s0) == Only({SearchAt(parts, s, 0) : parts \in {parts0}, s \in {s0}})

\* pattern.finditer(s): the non-overlapping matches, left to right
FindIter(parts0, s0) == Only({FindIterAt(parts, s, 0) : parts \in {parts0}, s \in {s0}})

\* re.sub: s with the k-th match of ms replaced by reps[k] (bound values)
RECURSIVE ReplaceMatches(_, _, _, _, _)
ReplaceMatches(s, ms, reps, k, pos) ==
    IF k > Len(ms) THEN Slice(s, pos, Len(s))
    ELSE Slice(s, pos, ms[k].start) \o reps[k]
           \o ReplaceMatches(s, ms, reps, k + 1, MatchEnd(ms[k]))

\* re.sub(pattern, rep, s) for a constant replacement
SubConst(parts, rep0, s0) ==
    Only({Only({ReplaceMatches(s, ms, [k \in 1..Len(ms) |-> rep], 1, 0)
                  : ms \in {FindIter(parts, s)}})
            : s \in {s0}, rep \in {rep0}})

(***************************************************************************)
(* normalize_name                                                          *)
(***************************************************************************)
\* r"\s+"
RE_WS_RUN == <<Plus(Cls(WS))>>
\* r"\s*\.\s*"
RE_DOT_WS == <<Star(Cls(WS)), Cls({Ch.dot}), Star(Cls(WS))>>
\* r"\s*([A-Ya])\.\s*([A-Ya])\."  (Cyrillic range)
RE_INITIALS == <<Star(Cls(WS)), Cls(RuUpper), Cls({Ch.dot}),
                 Star(Cls(WS)), Cls(RuUpper), Cls({Ch.dot})>>

\* re.sub(r"\s*([A-Ya])\.\s*([A-Ya])\.", r" \1.\2.", n)
SubInitials(n0) ==
    Only({Only({ReplaceMatches(n, ms,
                  [k \in 1..Len(ms) |->
                      <<Ch.sp, n[ms[k].ends[2]], Ch.dot, n[ms[k].ends[5]], Ch.dot>>],
                  1, 0)
                  : ms \in {FindIter(RE_INITIALS, n)}})
            : n \in {n0}})

\* a slip: the yo letters are unified after the initials are spaced
normalize_name_YoLast(nm) ==
    LET n1 == Strip(SubConst(RE_WS_RUN, <<Ch.sp>>, nm), WS)
        n3 == SubConst(RE_DOT_WS, <<Ch.dot>>, n1)
        n4 == SubInitials(n3)
    IN  ReplaceCh(ReplaceCh(n4, Ch.YO, Ch.YE), Ch.yo, Ch.ye)

\* a slip: only the capital yo is unified
normalize_name_UpperYoOnly(nm) ==
    LET n1 == Strip(SubConst(RE_WS_RUN, <<Ch.sp>>, nm), WS)
        n2 == ReplaceCh(n1, Ch.YO, Ch.YE)
        n3 == SubConst(RE_DOT_WS, <<Ch.dot>>, n2)
    IN  SubInitials(n3)

normalize_name(nm) ==
    LET n1 == Strip(SubConst(RE_WS_RUN, <<Ch.sp>>, nm), WS)
        n2 == ReplaceCh(ReplaceCh(n1, Ch.YO, Ch.YE), Ch.yo, Ch.ye)
        n3 == SubConst(RE_DOT_WS, <<Ch.dot>>, n2)
    IN  SubInitials(n3)

(***************************************************************************)
(* parse_dt                                                                *)
(***************************************************************************)
\* the value of the decimal digits of s[a:b] (a blank counts for nothing)
RECURSIVE Num(_, _, _)
Num(s, a, b) ==
    IF b <= a THEN 0
    ELSE IF s[b] \in Digit THEN 10 * Num(s, a, b - 1) + (s[b] - 48)
    ELSE Num(s, a, b - 1)

D(lo, hi) == Cls({48 + k : k \in lo..hi})
\* the directives of datetime.strptime as regular expressions
FMT_Y == Cat(<<D(0, 9), D(0, 9), D(0, 9), D(0, 9)>>)
FMT_m == Alt(<<Cat(<<D(1, 1), D(0, 2)>>), Cat(<<D(0, 0), D(1, 9)>>), D(1, 9)>>)
FMT_d == Alt(<<Cat(<<D(3, 3), D(0, 1)>>), Cat(<<D(1, 2), D(0, 9)>>),
               Cat(<<D(0, 0), D(1, 9)>>), D(1, 9), Cat(<<Cls({Ch.sp}), D(1, 9)>>)>>)
FMT_H == Alt(<<Cat(<<D(2, 2), D(0, 3)>>), Cat(<<D(0, 1), D(0, 9)>>), D(0, 9)>>)
FMT_M == Alt(<<Cat(<<D(0, 5), D(0, 9)>>), D(0, 9)>>)
FMT_S == Alt(<<Cat(<<D(6, 6), D(0, 1)>>), Cat(<<D(0, 5), D(0, 9)>>), D(0, 9)>>)
\* "%Y%m%dT%H%M%S" and "%Y%m%dT%H%M%SZ" (strptime ignores letter case)
FMT_LOCAL == <<FMT_Y, FMT_m, FMT_d, LitI(<<Ch.T>>), FMT_H, FMT_M, FMT_S>>
FMT_UTC == FMT_LOCAL \o <<LitI(<<Ch.Z>>)>>

IsLeap(y) == (y % 4 = 0 /\ y % 100 # 0) \/ y % 400 = 0
DaysInMonth(y, m) ==
    IF m = 2 THEN (IF IsLeap(y) THEN 29 ELSE 28)
    ELSE IF m \in {4, 6, 9, 11} THEN 30 ELSE 31

\* the day number of a civil date, counted so that DayNo % 7 = 0 is a Monday
DayNo(y, m, d) ==
    LET yy == IF m <= 2 THEN y - 1 ELSE y
        mp == IF m > 2 THEN m - 3 ELSE m + 9
        era == yy \div 400
        yoe == yy - era * 400
        doy == (153 * mp + 2) \div 5 + d - 1
    IN  era * 146097 + yoe * 365 + yoe \div 4 - yoe \div 100 + doy + 2

\* datetime.strptime(s, fmt): <<>> for ValueError, else <<datetime>>
strptime(s0, fmt) ==
    Only({Only({
        IF m = <<>> \/ MatchEnd(m[1]) # Len(s) THEN <<>>
        ELSE Only({
               IF f.year < 1 \/ f.day > DaysInMonth(f.year, f.month) \/ f.second > 59
               THEN <<>>
               ELSE <<[dayno |-> DayNo(f.year, f.month, f.day),
                       hour |-> f.hour, minute |-> f.minute]>>
               : f \in {[year   |-> Num(s, 0, m[1].ends[1]),
                         month  |-> Num(s, m[1].ends[1], m[1].ends[2]),
                         day    |-> Num(s, m[1].ends[2], m[1].ends[3]),
                         hour   |-> Num(s, m[1].ends[4], m[1].ends[5]),
                         minute |-> Num(s, m[1].ends[5], m[1].ends[6]),
                         second |-> Num(s, m[1].ends[6], m[1].ends[7])]}})
        : m \in {Match(fmt, s)}})
        : s \in {s0}})

\* Europe/Moscow is UTC+3 (for every date since 26 October 2014)
MoscowUtcOffset == 3
\* dt.replace(tzinfo=timezone.utc).astimezone(MOSCOW)
ToMoscow(dt) ==
    IF dt.hour + MoscowUtcOffset >= 24
    THEN [dayno |-> dt.dayno + 1, hour |-> dt.hour + MoscowUtcOffset - 24, minute |-> dt.minute]
    ELSE [dt EXCEPT !.hour = dt.hour + MoscowUtcOffset]

\* a slip: a date without a time is read as midnight of that day
parse_dt_NoDateTest(value0) ==
    Only({IF EndsWith(value, <<Ch.Z>>)
          THEN Only({IF r = <<>> THEN <<>> ELSE <<ToMoscow(r[1])>> : r \in {strptime(value, FMT_UTC)}})
          ELSE IF Len(value) = 8
               THEN <<[dayno |-> DayNo(Num(value, 0, 4), Num(value, 4, 6), Num(value, 6, 8)),
                       hour |-> 0, minute |-> 0]>>
               ELSE strptime(value, FMT_LOCAL)
            : value \in {Strip(value0, WS)}})

\* parse_dt: <<>> for None, else <<datetime in Moscow time>>
parse_dt(value0) ==
    Only({IF EndsWith(value, <<Ch.Z>>)
          THEN Only({IF r = <<>> THEN <<>> ELSE <<ToMoscow(r[1])>> : r \in {strptime(value, FMT_UTC)}})
          ELSE IF Len(value) = 8 THEN <<>>
               ELSE strptime(value, FMT_LOCAL)
            : value \in {Strip(value0, WS)}})

\* two decimal digits, as "%H" and "%M" of strftime print them
TwoDigits(n) == <<48 + (n \div 10), 48 + (n % 10)>>
\* dt.strftime('%H:%M')
strftime_HM(dt) == TwoDigits(dt.hour) \o <<Ch.colon>> \o TwoDigits(dt.minute)

\* "Prepodavatel'  (teacher)"
S_Prepodavatel == <<1055, 1088, 1077, 1087, 1086, 1076, 1072, 1074, 1072, 1090, 1077, 1083, 1100>>
\* "Raspisanie  (schedule)"
S_Raspisanie == <<1056, 1072, 1089, 1087, 1080, 1089, 1072, 1085, 1080, 1077>>
\* RU_DOW[dt.weekday()]
RU_DOW == <<
    <<1055, 1086, 1085, 1077, 1076, 1077, 1083, 1100, 1085, 1080, 1082>>,   \* "Ponedel'nik (Monday)"
    <<1042, 1090, 1086, 1088, 1085, 1080, 1082>>,   \* "Vtornik"
    <<1057, 1088, 1077, 1076, 1072>>,   \* "Sreda"
    <<1063, 1077, 1090, 1074, 1077, 1088, 1075>>,   \* "Chetverg"
    <<1055, 1103, 1090, 1085, 1080, 1094, 1072>>,   \* "Pyatnitsa"
    <<1057, 1091, 1073, 1073, 1086, 1090, 1072>>,   \* "Subbota"
    <<1042, 1086, 1089, 1082, 1088, 1077, 1089, 1077, 1085, 1100, 1077>>   \* "Voskresen'e (Sunday)"
    >>
Weekday(dt) == dt.dayno % 7

(***************************************************************************)
(* extract_subject                                                         *)
(***************************************************************************)
\* the lesson kinds that end the subject in a SUMMARY
TYPES == <<
    <<1083, 1077, 1082, 46>>,   \* "lek."
    <<1083, 1077, 1082>>,   \* "lek"
    <<1083, 1072, 1073, 46>>,   \* "lab."
    <<1083, 1072, 1073>>,   \* "lab"
    <<1087, 1088, 46>>,   \* "pr."
    <<1087, 1088>>,   \* "pr"
    <<1089, 1077, 1084, 46>>,   \* "sem."
    <<1089, 1077, 1084>>,   \* "sem"
    <<1082, 1086, 1085, 1089, 46>>,   \* "kons."
    <<1101, 1082, 1079, 46>>,   \* "ekz."
    <<1079, 1072, 1095, 46>>,   \* "zach."
    <<1082, 1091, 1088, 1089, 46, 1087, 1088, 46>>   \* "kurs.pr."
    >>
\* r"\b(" + "|".join(re.escape(t) for t in TYPES) + r")\b", re.IGNORECASE
TYPES_RE == <<WB, Alt([k \in 1..Len(TYPES) |-> LitI(TYPES[k])]), WB>>
\* r"\s+[IVX]+\s+"
RE_ROMAN == <<Plus(Cls(WS)), Plus(Cls({73, 86, 88})), Plus(Cls(WS))>>
\* the characters of .strip(" -\u2013\xa0"): space, hyphen, en dash, no-break space
SubjectTrim == {Ch.sp, Ch.dash, Ch.endash, Ch.nbsp}

extract_subject(summary) ==
    Only({Only({
        IF m # <<>> THEN Strip(Slice(s, 0, m[1].start), SubjectTrim)
        ELSE Only({Strip(IF r = <<>> THEN s ELSE Slice(s, 0, r[1].start), SubjectTrim)
                     : r \in {Search(RE_ROMAN, s)}})
        : m \in {Search(TYPES_RE, s)}})
        : s \in {Strip(summary, WS)}})

(***************************************************************************)
(* extract_teachers                                                        *)
(***************************************************************************)
\* \s+[A-YaYO]\.\s*[A-YaYO]\.   (Cyrillic capitals)
RE_TWO_INITIALS == Cat(<<Plus(Cls(WS)), Cls(RuUpperYo), Cls({Ch.dot}),
                         Star(Cls(WS)), Cls(RuUpperYo), Cls({Ch.dot})>>)
\* [A-YaYO][a-yayo\-]+   (a capitalised Cyrillic word)
RE_CAP_WORD == Cat(<<Cls(RuUpperYo), Plus(Cls(RuLowerYoDash))>>)

\* RE_TEACHER_FROM_DESC: an optional "Prepodavatel'...:" label, then group 1
RE_TEACHER_FROM_DESC ==
    <<Opt(Cat(<<Lit(S_Prepodavatel), Star(NotCls({Ch.colon})), Cls({Ch.colon}), Star(Cls(WS))>>)),
      Cat(<<RE_CAP_WORD, Opt(RE_TWO_INITIALS), Opt(Cat(<<Plus(Cls(WS)), RE_CAP_WORD>>))>>)>>

\* RE_TEACHER_AFTER_ROOM: a room number, white space, then group 1
RE_TEACHER_AFTER_ROOM ==
    <<Cat(<<WB, Rep(Cls(Digit), 1, 2), Opt(Cls({Ch.dash, Ch.endash})), Rep(Cls(Digit), 1, 3),
            Opt(Cls(RuUpper \cup RuLower \cup LatinUpper \cup LatinLower))>>),
      Plus(Cls(WS)),
      Cat(<<RE_CAP_WORD, Opt(RE_TWO_INITIALS)>>)>>

\* RE_FIO_INITIALS: a surname and one or two pairs of initials, between \b and \b
RE_FIO_INITIALS == <<WB, RE_CAP_WORD, Rep(RE_TWO_INITIALS, 1, 2), WB>>

\* r"^[A-YaYO][a-yayo\-]+$"
RE_ONE_CAP_WORD == <<RE_CAP_WORD, Dollar>>

\* [normalize_name(m.group(g)) for m in pattern.finditer(s)]; group 0 is the match
GroupNames(pattern, g, s0) ==
    Only({Only({[k \in 1..Len(ms) |->
                   normalize_name(Slice(s, IF g = 0 THEN ms[k].start ELSE ms[k].ends[g - 1],
                                           IF g = 0 THEN MatchEnd(ms[k]) ELSE ms[k].ends[g]))]
                  : ms \in {FindIter(pattern, s)}})
            : s \in {s0}})

\* the characters of t.strip(",;:. ")
NameTrim == {Ch.comma, Ch.semi, Ch.colon, Ch.dot, Ch.sp}

\* the filter loop: strip each candidate, drop a single word that is no name
RECURSIVE CleanNames(_, _)
CleanNames(cand, k) ==
    IF k > Len(cand) THEN <<>>
    ELSE Only({(IF Len(SplitWS(t)) = 1 /\ Match(RE_ONE_CAP_WORD, t) = <<>> THEN <<>> ELSE <<t>>)
                  \o CleanNames(cand, k + 1)
                 : t \in {Strip(cand[k], NameTrim)}})

\* the first occurrence of each element, in order
RECURSIVE Uniq(_, _, _)
Uniq(xs, k, seen) ==
    IF k > Len(xs) THEN <<>>
    ELSE IF xs[k] \in seen THEN Uniq(xs, k + 1, seen)
    ELSE <<xs[k]>> \o Uniq(xs, k + 1, seen \cup {xs[k]})

extract_teachers(description0, summary0) ==
    Only({Only({Only({Uniq(cleaned, 1, {}) : cleaned \in {CleanNames(cand, 1)}})
        : cand \in {
            (IF description # <<>>
             THEN SelectSeq(GroupNames(RE_TEACHER_FROM_DESC, 2, description), LAMBDA v : Len(v) >= 3)
                  \o SelectSeq(GroupNames(RE_FIO_INITIALS, 0, description), LAMBDA v : Len(v) >= 3)
             ELSE <<>>)
            \o
            (IF summary # <<>>
             THEN GroupNames(RE_TEACHER_AFTER_ROOM, 3, summary)
                  \o GroupNames(RE_FIO_INITIALS, 0, summary)
             ELSE <<>>)}})
        : description \in {description0}, summary \in {summary0}})

(***************************************************************************)
(* unfold_ics and parse_ics                                                *)
(***************************************************************************)
\* the characters at which str.splitlines() breaks a text
LineBreaks == {10, 11, 12, 13, 28, 29, 30, 133, 8232, 8233}

\* the offset of the first line break at or after offset i, Len(s) if none
LineEnd(s, i) ==
    CHOOSE n \in i..Len(s) :
        /\ n = Len(s) \/ s[n + 1] \in LineBreaks
        /\ \A k \in (i + 1)..n : s[k] \notin LineBreaks

\* text.splitlines(), from offset i on ("\r\n" is one break)
RECURSIVE SplitLinesFrom(_, _)
SplitLinesFrom(s, i) ==
    IF i >= Len(s) THEN <<>>
    ELSE Only({<<Slice(s, i, e)>> \o
               SplitLinesFrom(s, IF e + 2 <= Len(s) /\ s[e + 1] = 13 /\ s[e + 2] = 10
                                 THEN e + 2 ELSE e + 1)
                 : e \in {LineEnd(s, i)}})

\* the loop of unfold_ics: a line that starts with a space continues the one before
RECURSIVE Unfold(_, _, _)
Unfold(lns, k, res0) ==
    Only({IF k > Len(lns) THEN res
          ELSE IF StartsWith(lns[k], <<Ch.sp>>)
               THEN Unfold(lns, k + 1,
                           IF res # <<>> THEN [res EXCEPT ![Len(res)] = @ \o Tail(lns[k])]
                           ELSE res)
               ELSE Unfold(lns, k + 1, Append(res, lns[k]))
            : res \in {res0}})

unfold_ics(text) == Only({Unfold(lns, 1, <<>>) : lns \in {SplitLinesFrom(text, 0)}})

\* "BEGIN:VEVENT"
S_BEGIN == <<66, 69, 71, 73, 78, 58, 86, 69, 86, 69, 78, 84>>
\* "END:VEVENT"
S_END == <<69, 78, 68, 58, 86, 69, 86, 69, 78, 84>>
\* "X-WR-CALNAME:"
S_CALNAME == <<88, 45, 87, 82, 45, 67, 65, 76, 78, 65, 77, 69, 58>>
\* "UNKNOWN"
S_UNKNOWN == <<85, 78, 75, 78, 79, 87, 78>>

\* the property names parse_ics keeps, by name
KEYS == [SUMMARY     |-> <<83, 85, 77, 77, 65, 82, 89>>,
         DESCRIPTION |-> <<68, 69, 83, 67, 82, 73, 80, 84, 73, 79, 78>>,
         LOCATION    |-> <<76, 79, 67, 65, 84, 73, 79, 78>>,
         DTSTART     |-> <<68, 84, 83, 84, 65, 82, 84>>,
         DTEND       |-> <<68, 84, 69, 78, 68>>,
         RRULE       |-> <<82, 82, 85, 76, 69>>]

\* r"Raspisanie\s+(.+)"  (group 1 is the third part)
RE_CALNAME == <<Lit(S_Raspisanie), Plus(Cls(WS)), Plus(NotCls({Ch.nl}))>>

\* the group code of the first X-WR-CALNAME line, "UNKNOWN" without one
GroupCode(lns) ==
    Only({IF hits = {} THEN S_UNKNOWN
          ELSE Only({Only({IF m = <<>> THEN title
                           ELSE Strip(Slice(title, m[1].ends[2], m[1].ends[3]), WS)
                             : m \in {Search(RE_CALNAME, title)}})
                 : title \in {Strip(Slice(lns[CHOOSE h \in hits : \A o \in hits : h <= o],
                                          Len(S_CALNAME), 
                                          Len(lns[CHOOSE h \in hits : \A o \in hits : h <= o])), WS)}})
            : hits \in {{k \in 1..Len(lns) : StartsWith(lns[k], S_CALNAME)}}})

\* {}: a dict without keys
EmptyDict == [k \in {} |-> <<>>]
\* ev.get(k, "")
Get(evt, k) == IF k \in DOMAIN evt THEN evt[k] ELSE <<>>
\* ev[k] = v
Put(evt, k, v) == [x \in DOMAIN evt \cup {k} |-> IF x = k THEN v ELSE evt[x]]

\* the Lesson objects flush_event appends, one for each of the teachers ts
LessonsOf(ts, gcode, subject, dow, time_str, location) ==
    [k \in 1..Len(ts) |-> [group |-> gcode, subject |-> subject, day |-> dow,
                            time |-> time_str, room |-> location, teacher |-> ts[k]]]

\* a slip: an event without a teacher is kept, as a lesson with an empty name
flush_event_EmptyTeacher(ev0, gcode) ==
    Only({IF DOMAIN evt = {} THEN <<>>
          ELSE Only({
                 IF summary = <<>> \/ dtstart = <<>> \/ dtend = <<>> THEN <<>>
                 ELSE LessonsOf(Only({IF ts = <<>> THEN <<<<>>>> ELSE ts
                                        : ts \in {extract_teachers(
                                                    Strip(Get(evt, "DESCRIPTION"), WS), summary)}}),
                                gcode, extract_subject(summary),
                                RU_DOW[Weekday(dtstart[1]) + 1],
                                strftime_HM(dtstart[1]) \o <<Ch.endash>> \o strftime_HM(dtend[1]),
                                Strip(Get(evt, "LOCATION"), WS))
                 : summary \in {Strip(Get(evt, "SUMMARY"), WS)},
                   dtstart \in {parse_dt(Get(evt, "DTSTART"))},
                   dtend \in {parse_dt(Get(evt, "DTEND"))}})
            : evt \in {ev0}})

\* flush_event: the lessons the collected event adds (it always leaves ev empty).
\* A missing room (None) is <<>>: "" is turned into None, so no room is ever "".
flush_event(ev0, gcode) ==
    Only({IF DOMAIN evt = {} THEN <<>>
          ELSE Only({
                 IF summary = <<>> \/ dtstart = <<>> \/ dtend = <<>> THEN <<>>
                 ELSE LessonsOf(extract_teachers(Strip(Get(evt, "DESCRIPTION"), WS), summary),
                                gcode, extract_subject(summary),
                                RU_DOW[Weekday(dtstart[1]) + 1],
                                strftime_HM(dtstart[1]) \o <<Ch.endash>> \o strftime_HM(dtend[1]),
                                Strip(Get(evt, "LOCATION"), WS))
                 : summary \in {Strip(Get(evt, "SUMMARY"), WS)},
                   dtstart \in {parse_dt(Get(evt, "DTSTART"))},
                   dtend \in {parse_dt(Get(evt, "DTEND"))}})
            : evt \in {ev0}})

\* key_part.split(";", 1)[0].upper() of a line that holds a colon
LineKey(ln) ==
    Only({Only({Upper(Slice(key_part, 0, IF semi < 0 THEN Len(key_part) ELSE semi))
                  : semi \in {FindCh(key_part, Ch.semi, 0)}})
            : key_part \in {Slice(ln, 0, FindCh(ln, Ch.colon, 0))}})

\* which branch of the loop body of parse_ics a line takes
LineKind(ln0, inside) ==
    Only({IF StartsWith(ln, S_BEGIN) THEN "begin"
          ELSE IF StartsWith(ln, S_END) THEN "end"
          ELSE IF ~inside THEN "outside"
          ELSE IF FindCh(ln, Ch.colon, 0) < 0 THEN "nocolon"
          ELSE IF \E k \in DOMAIN KEYS : KEYS[k] = LineKey(ln) THEN "kept"
          ELSE "other"
            : ln \in {ln0}})

\* a slip: BEGIN:VEVENT does not start from an empty ev
ParseLine_NoReset(st0, ln0, gcode) ==
    Only({Only({
        CASE kind = "begin" -> [st EXCEPT !.in_event = TRUE]
          [] kind = "end"   -> [in_event |-> FALSE, ev |-> EmptyDict,
                                lessons |-> st.lessons \o flush_event(st.ev, gcode)]
          [] kind = "kept"  ->
                [st EXCEPT !.ev = Put(st.ev, CHOOSE k \in DOMAIN KEYS : KEYS[k] = LineKey(ln),
                                      Strip(Slice(ln, FindCh(ln, Ch.colon, 0) + 1, Len(ln)), WS))]
          [] OTHER -> st
        : kind \in {LineKind(ln, st.in_event)}})
        : st \in {st0}, ln \in {ln0}})

\* one pass of the loop body of parse_ics over the state st = [ev, in_event, lessons]
ParseLine(st0, ln0, gcode) ==
    Only({Only({
        CASE kind = "begin" -> [st EXCEPT !.in_event = TRUE, !.ev = EmptyDict]
          [] kind = "end"   -> [in_event |-> FALSE, ev |-> EmptyDict,
                                lessons |-> st.lessons \o flush_event(st.ev, gcode)]
          [] kind = "kept"  ->
                [st EXCEPT !.ev = Put(st.ev, CHOOSE k \in DOMAIN KEYS : KEYS[k] = LineKey(ln),
                                      Strip(Slice(ln, FindCh(ln, Ch.colon, 0) + 1, Len(ln)), WS))]
          [] OTHER -> st
        : kind \in {LineKind(ln, st.in_event)}})
        : st \in {st0}, ln \in {ln0}})

\* the loop of parse_ics from the k-th line on
RECURSIVE ParseFrom(_, _, _, _)
ParseFrom(lns, k, st0, gcode) ==
    IF k > Len(lns) THEN st0.lessons
    ELSE Only({ParseFrom(lns, k + 1, st, gcode)
                 : st \in {ParseLine(st0, lns[k], gcode)}})

\* parse_ics: [group_code, lessons]
parse_ics(text) ==
    Only({Only({[group_code |-> gc,
                 lessons |-> ParseFrom(lns, 1, [ev |-> EmptyDict, in_event |-> FALSE,
                                                   lessons |-> <<>>], gc)]
                  : gc \in {GroupCode(lns)}})
            : lns \in {unfold_ics(text)}})

(***************************************************************************)
(* Calendar payloads: a header and some events, one line after another     *)
(***************************************************************************)
\* the calendar headers: with a "Raspisanie <group>" name, a bare name, no name
HEADERS == [
    IU3 |-> <<
        \* BEGIN:VCALENDAR
        <<66, 69, 71, 73, 78, 58, 86, 67, 65, 76, 69, 78, 68, 65, 82>>,
        \* X-WR-CALNAME:Raspisanie IU3-45
        <<88, 45, 87, 82, 45, 67, 65, 76, 78, 65, 77, 69, 58, 1056, 1072, 1089, 1087, 1080, 1089, 1072, 1085, 1080, 1077, 32, 1048, 1059, 51, 45, 52, 53>>
        >>,
    IU7 |-> <<
        \* X-WR-CALNAME: IU7-11 
        <<88, 45, 87, 82, 45, 67, 65, 76, 78, 65, 77, 69, 58, 32, 1048, 1059, 55, 45, 49, 49, 32>>
        >>,
    NONE |-> <<
        \* BEGIN:VCALENDAR
        <<66, 69, 71, 73, 78, 58, 86, 67, 65, 76, 69, 78, 68, 65, 82>>
        >>]

\* the events: well-formed ones (Room, RoomOther, Desc, with a folded SUMMARY),
\* ones without usable times (NoEnd, DateEnd, BadStart), one without a
\* teacher (NoTeacher), one never closed (Open), a stray END:VEVENT
\* (StrayEnd), and the two spellings of one teacher's initials (Dots, DotsSp)
EVENTS == [
    Room |-> <<
        \* BEGIN:VEVENT
        <<66, 69, 71, 73, 78, 58, 86, 69, 86, 69, 78, 84>>,
        \* SUMMARY:Fizika lek. 12-3 Yolkin A. B.
        <<83, 85, 77, 77, 65, 82, 89, 58, 1060, 1080, 1079, 1080, 1082, 1072, 32, 1083, 1077, 1082, 46, 32, 49, 50, 45, 51, 32, 1025, 1083, 1082, 1080, 1085, 32, 1040, 46, 32, 1041, 46>>,
        \* DTSTART:20240208T071500Z
        <<68, 84, 83, 84, 65, 82, 84, 58, 50, 48, 50, 52, 48, 50, 48, 56, 84, 48, 55, 49, 53, 48, 48, 90>>,
        \* DTEND:20240208T084500Z
        <<68, 84, 69, 78, 68, 58, 50, 48, 50, 52, 48, 50, 48, 56, 84, 48, 56, 52, 53, 48, 48, 90>>,
        \* LOCATION:501
        <<76, 79, 67, 65, 84, 73, 79, 78, 58, 53, 48, 49>>,
        \* END:VEVENT
        <<69, 78, 68, 58, 86, 69, 86, 69, 78, 84>>
        >>,
    RoomOther |-> <<
        \* BEGIN:VEVENT
        <<66, 69, 71, 73, 78, 58, 86, 69, 86, 69, 78, 84>>,
        \* SUMMARY:Fizika lek. 12-3 Yolkin A. B.
        <<83, 85, 77, 77, 65, 82, 89, 58, 1060, 1080, 1079, 1080, 1082, 1072, 32, 1083, 1077, 1082, 46, 32, 49, 50, 45, 51, 32, 1025, 1083, 1082, 1080, 1085, 32, 1040, 46, 32, 1041, 46>>,
        \* DTSTART:20240208T071500Z
        <<68, 84, 83, 84, 65, 82, 84, 58, 50, 48, 50, 52, 48, 50, 48, 56, 84, 48, 55, 49, 53, 48, 48, 90>>,
        \* DTEND:20240208T084500Z
        <<68, 84, 69, 78, 68, 58, 50, 48, 50, 52, 48, 50, 48, 56, 84, 48, 56, 52, 53, 48, 48, 90>>,
        \* LOCATION:502
        <<76, 79, 67, 65, 84, 73, 79, 78, 58, 53, 48, 50>>,
        \* END:VEVENT
        <<69, 78, 68, 58, 86, 69, 86, 69, 78, 84>>
        >>,
    Desc |-> <<
        \* BEGIN:VEVENT
        <<66, 69, 71, 73, 78, 58, 86, 69, 86, 69, 78, 84>>,
        \* summary;LANGUAGE=ru:Seti
        <<115, 117, 109, 109, 97, 114, 121, 59, 76, 65, 78, 71, 85, 65, 71, 69, 61, 114, 117, 58, 1057, 1077, 1090, 1080>>,
        \*  lab
        <<32, 1083, 1072, 1073>>,
        \* DESCRIPTION:Prepodavatel': Semyonov A.B.
        <<68, 69, 83, 67, 82, 73, 80, 84, 73, 79, 78, 58, 1055, 1088, 1077, 1087, 1086, 1076, 1072, 1074, 1072, 1090, 1077, 1083, 1100, 58, 32, 1057, 1077, 1084, 1105, 1085, 1086, 1074, 32, 1040, 46, 1041, 46>>,
        \* DTSTART;TZID=Europe/Moscow:20240209T221500
        <<68, 84, 83, 84, 65, 82, 84, 59, 84, 90, 73, 68, 61, 69, 117, 114, 111, 112, 101, 47, 77, 111, 115, 99, 111, 119, 58, 50, 48, 50, 52, 48, 50, 48, 57, 84, 50, 50, 49, 53, 48, 48>>,
        \* DTEND:20240209T214500Z
        <<68, 84, 69, 78, 68, 58, 50, 48, 50, 52, 48, 50, 48, 57, 84, 50, 49, 52, 53, 48, 48, 90>>,
        \* END:VEVENT
        <<69, 78, 68, 58, 86, 69, 86, 69, 78, 84>>
        >>,
    NoEnd |-> <<
        \* BEGIN:VEVENT
        <<66, 69, 71, 73, 78, 58, 86, 69, 86, 69, 78, 84>>,
        \* SUMMARY:Fizika lek. 12-3 Yolkin A. B.
        <<83, 85, 77, 77, 65, 82, 89, 58, 1060, 1080, 1079, 1080, 1082, 1072, 32, 1083, 1077, 1082, 46, 32, 49, 50, 45, 51, 32, 1025, 1083, 1082, 1080, 1085, 32, 1040, 46, 32, 1041, 46>>,
        \* DTSTART:20240208T071500Z
        <<68, 84, 83, 84, 65, 82, 84, 58, 50, 48, 50, 52, 48, 50, 48, 56, 84, 48, 55, 49, 53, 48, 48, 90>>,
        \* END:VEVENT
        <<69, 78, 68, 58, 86, 69, 86, 69, 78, 84>>
        >>,
    DateEnd |-> <<
        \* BEGIN:VEVENT
        <<66, 69, 71, 73, 78, 58, 86, 69, 86, 69, 78, 84>>,
        \* SUMMARY:Fizika lek. 12-3 Yolkin A. B.
        <<83, 85, 77, 77, 65, 82, 89, 58, 1060, 1080, 1079, 1080, 1082, 1072, 32, 1083, 1077, 1082, 46, 32, 49, 50, 45, 51, 32, 1025, 1083, 1082, 1080, 1085, 32, 1040, 46, 32, 1041, 46>>,
        \* DTSTART:20240208T071500Z
        <<68, 84, 83, 84, 65, 82, 84, 58, 50, 48, 50, 52, 48, 50, 48, 56, 84, 48, 55, 49, 53, 48, 48, 90>>,
        \* DTEND;VALUE=DATE:20240208
        <<68, 84, 69, 78, 68, 59, 86, 65, 76, 85, 69, 61, 68, 65, 84, 69, 58, 50, 48, 50, 52, 48, 50, 48, 56>>,
        \* END:VEVENT
        <<69, 78, 68, 58, 86, 69, 86, 69, 78, 84>>
        >>,
    BadStart |-> <<
        \* BEGIN:VEVENT
        <<66, 69, 71, 73, 78, 58, 86, 69, 86, 69, 78, 84>>,
        \* SUMMARY:Fizika lek. 12-3 Yolkin A. B.
        <<83, 85, 77, 77, 65, 82, 89, 58, 1060, 1080, 1079, 1080, 1082, 1072, 32, 1083, 1077, 1082, 46, 32, 49, 50, 45, 51, 32, 1025, 1083, 1082, 1080, 1085, 32, 1040, 46, 32, 1041, 46>>,
        \* DTSTART:20240230T071500Z
        <<68, 84, 83, 84, 65, 82, 84, 58, 50, 48, 50, 52, 48, 50, 51, 48, 84, 48, 55, 49, 53, 48, 48, 90>>,
        \* DTEND:20240208T084500Z
        <<68, 84, 69, 78, 68, 58, 50, 48, 50, 52, 48, 50, 48, 56, 84, 48, 56, 52, 53, 48, 48, 90>>,
        \* END:VEVENT
        <<69, 78, 68, 58, 86, 69, 86, 69, 78, 84>>
        >>,
    NoTeacher |-> <<
        \* BEGIN:VEVENT
        <<66, 69, 71, 73, 78, 58, 86, 69, 86, 69, 78, 84>>,
        \* UID:1
        <<85, 73, 68, 58, 49>>,
        \* SUMMARY:Fizika lab.
        <<83, 85, 77, 77, 65, 82, 89, 58, 1060, 1080, 1079, 1080, 1082, 1072, 32, 1083, 1072, 1073, 46>>,
        \* DESCRIPTION:
        <<68, 69, 83, 67, 82, 73, 80, 84, 73, 79, 78, 58>>,
        \* DTSTART:20240208T071500Z
        <<68, 84, 83, 84, 65, 82, 84, 58, 50, 48, 50, 52, 48, 50, 48, 56, 84, 48, 55, 49, 53, 48, 48, 90>>,
        \* DTEND:20240208T084500Z
        <<68, 84, 69, 78, 68, 58, 50, 48, 50, 52, 48, 50, 48, 56, 84, 48, 56, 52, 53, 48, 48, 90>>,
        \* END:VEVENT
        <<69, 78, 68, 58, 86, 69, 86, 69, 78, 84>>
        >>,
    Open |-> <<
        \* BEGIN:VEVENT
        <<66, 69, 71, 73, 78, 58, 86, 69, 86, 69, 78, 84>>,
        \* SUMMARY:Fizika lek. 12-3 Yolkin A. B.
        <<83, 85, 77, 77, 65, 82, 89, 58, 1060, 1080, 1079, 1080, 1082, 1072, 32, 1083, 1077, 1082, 46, 32, 49, 50, 45, 51, 32, 1025, 1083, 1082, 1080, 1085, 32, 1040, 46, 32, 1041, 46>>,
        \* DTSTART:20240208T071500Z
        <<68, 84, 83, 84, 65, 82, 84, 58, 50, 48, 50, 52, 48, 50, 48, 56, 84, 48, 55, 49, 53, 48, 48, 90>>,
        \* DTEND:20240208T084500Z
        <<68, 84, 69, 78, 68, 58, 50, 48, 50, 52, 48, 50, 48, 56, 84, 48, 56, 52, 53, 48, 48, 90>>,
        \* UID 1
        <<85, 73, 68, 32, 49>>
        >>,
    StrayEnd |-> <<
        \* LOCATION:77
        <<76, 79, 67, 65, 84, 73, 79, 78, 58, 55, 55>>,
        \* END:VEVENT
        <<69, 78, 68, 58, 86, 69, 86, 69, 78, 84>>
        >>,
    NoSubject |-> <<
        \* BEGIN:VEVENT
        <<66, 69, 71, 73, 78, 58, 86, 69, 86, 69, 78, 84>>,
        \* SUMMARY:lek. 12-3 Yolkin A. B.
        <<83, 85, 77, 77, 65, 82, 89, 58, 1083, 1077, 1082, 46, 32, 49, 50, 45, 51, 32, 1025, 1083, 1082, 1080, 1085, 32, 1040, 46, 32, 1041, 46>>,
        \* DTSTART:20240208T071500Z
        <<68, 84, 83, 84, 65, 82, 84, 58, 50, 48, 50, 52, 48, 50, 48, 56, 84, 48, 55, 49, 53, 48, 48, 90>>,
        \* DTEND:20240208T084500Z
        <<68, 84, 69, 78, 68, 58, 50, 48, 50, 52, 48, 50, 48, 56, 84, 48, 56, 52, 53, 48, 48, 90>>,
        \* END:VEVENT
        <<69, 78, 68, 58, 86, 69, 86, 69, 78, 84>>
        >>,
    Dots |-> <<
        \* BEGIN:VEVENT
        <<66, 69, 71, 73, 78, 58, 86, 69, 86, 69, 78, 84>>,
        \* SUMMARY:Matematika lek. Ivanov I.I.
        <<83, 85, 77, 77, 65, 82, 89, 58, 1052, 1072, 1090, 1077, 1084, 1072, 1090, 1080, 1082, 1072, 32, 1083, 1077, 1082, 46, 32, 1048, 1074, 1072, 1085, 1086, 1074, 32, 1048, 46, 1048, 46>>,
        \* DTSTART:20240208T071500Z
        <<68, 84, 83, 84, 65, 82, 84, 58, 50, 48, 50, 52, 48, 50, 48, 56, 84, 48, 55, 49, 53, 48, 48, 90>>,
        \* DTEND:20240208T081500Z
        <<68, 84, 69, 78, 68, 58, 50, 48, 50, 52, 48, 50, 48, 56, 84, 48, 56, 49, 53, 48, 48, 90>>,
        \* END:VEVENT
        <<69, 78, 68, 58, 86, 69, 86, 69, 78, 84>>
        >>,
    DotsSp |-> <<
        \* BEGIN:VEVENT
        <<66, 69, 71, 73, 78, 58, 86, 69, 86, 69, 78, 84>>,
        \* SUMMARY:Matematika lek. Ivanov I. I.
        <<83, 85, 77, 77, 65, 82, 89, 58, 1052, 1072, 1090, 1077, 1084, 1072, 1090, 1080, 1082, 1072, 32, 1083, 1077, 1082, 46, 32, 1048, 1074, 1072, 1085, 1086, 1074, 32, 1048, 46, 32, 1048, 46>>,
        \* DTSTART:20240208T071500Z
        <<68, 84, 83, 84, 65, 82, 84, 58, 50, 48, 50, 52, 48, 50, 48, 56, 84, 48, 55, 49, 53, 48, 48, 90>>,
        \* DTEND:20240208T081500Z
        <<68, 84, 69, 78, 68, 58, 50, 48, 50, 52, 48, 50, 48, 56, 84, 48, 56, 49, 53, 48, 48, 90>>,
        \* END:VEVENT
        <<69, 78, 68, 58, 86, 69, 86, 69, 78, 84>>
        >>]

\* the lines of the events es, one event after another
RECURSIVE EventLines(_, _)
EventLines(es, k) == IF k > Len(es) THEN <<>> ELSE EVENTS[es[k]] \o EventLines(es, k + 1)

\* the text whose lines are lns[k..], each ended by "\n"
RECURSIVE JoinLines(_, _)
JoinLines(lns, k) == IF k > Len(lns) THEN <<>> ELSE lns[k] \o <<Ch.nl>> \o JoinLines(lns, k + 1)

\* the payload with header h and the events es
Payload(h, es) == Only({JoinLines(lns, 1) : lns \in {HEADERS[h] \o EventLines(es, 1)}})

(***************************************************************************)
(* The variables of each specification at rest, as they are in the others  *)
(***************************************************************************)
NormOff ==
    /\ name = <<>> /\ canon = <<>> /\ recanon = <<>>
    /\ variant = <<>> /\ vcanon = <<>>
    /\ nstage = "off"

SearchOff ==
    /\ idx = {} /\ idx_exists = FALSE /\ query = <<>> /\ topn = 0
    /\ result = <<>> /\ tresult = {} /\ sstage = "off"

ParseOff ==
    /\ ics_text = <<>> /\ lines = <<>> /\ group_code = <<>> /\ ev = EmptyDict
    /\ in_event = FALSE /\ lessons = <<>> /\ ln_no = 0 /\ pstage = "off"

BuildOff ==
    /\ prog = "off" /\ served = <<>> /\ pending = {} /\ completed = <<>>
    /\ groups_raw = EmptyDict /\ teachers_index = EmptyDict /\ index_file = <<>>
    /\ groups_file = <<>>
    /\ replies = <<>> /\ group_no = 0 /\ teacher_schedule = EmptyDict /\ pc = "off"

LessonOff ==
    /\ raw_item = EmptyDict /\ start_time = <<>> /\ end_time = <<>> /\ lstage = "off"

AppOff ==
    /\ route = [endpoint |-> "off", q |-> <<>>] /\ upstream = EmptyDict /\ outcome = EmptyDict /\ astage = "off"

(***************************************************************************)
(* SpecNorm: the canonicaliser applied to bounded names                    *)
(***************************************************************************)
MaxNameLen == 4
\* whitespace, the period, both yo letters and the two ye letters (the
\* capital one lies in the Cyrillic range of RE_INITIALS, the small one not)
NameAlphabet == {Ch.sp, Ch.dot, Ch.YO, Ch.yo, Ch.YE, Ch.ye}
Names == UNION {[1..n -> NameAlphabet] : n \in 0..MaxNameLen}

\* the other spelling of a yo or ye letter
YoSwap(c) ==
    CASE c = Ch.YO -> Ch.YE [] c = Ch.YE -> Ch.YO
      [] c = Ch.yo -> Ch.ye [] c = Ch.ye -> Ch.yo
      [] OTHER -> c
\* the strings that differ from s only in the yo / ye spelling
YoVariants(s) ==
    LET pos == {i \in 1..Len(s) : YoSwap(s[i]) # s[i]}
    IN  {[i \in 1..Len(s) |-> IF i \in P THEN YoSwap(s[i]) ELSE s[i]] : P \in SUBSET pos}

NormInit ==
    /\ name \in Names
    /\ canon = <<>> /\ recanon = <<>>
    /\ variant = <<>> /\ vcanon = <<>>
    /\ nstage = "input"
    /\ SearchOff /\ ParseOff /\ BuildOff /\ LessonOff /\ AppOff

\* key = normalize_name(L.teacher)
Canonicalize ==
    /\ nstage = "input"
    /\ canon' = normalize_name(name)
    /\ nstage' = "canon"
    /\ UNCHANGED <<name, recanon, variant, vcanon>>
    /\ UNCHANGED NormOthers

\* a canonical key is canonicalised again (search_index does so with every key)
Recanonicalize ==
    /\ nstage = "canon"
    /\ recanon' = normalize_name(canon)
    /\ nstage' = "recanon"
    /\ UNCHANGED <<name, canon, variant, vcanon>>
    /\ UNCHANGED NormOthers

\* the same name arrives in its other yo / ye spelling
CanonicalizeVariant ==
    /\ nstage = "canon"
    /\ \E v \in YoVariants(name) :
         /\ variant' = v
         /\ vcanon' = normalize_name(v)
    /\ nstage' = "variant"
    /\ UNCHANGED <<name, canon, recanon>>
    /\ UNCHANGED NormOthers

NormNext == Canonicalize \/ Recanonicalize \/ CanonicalizeVariant

SpecNorm == NormInit /\ [][NormNext]_vars

\* C4: canonicalisation is idempotent: normalize_name applied to its own
\* result returns that result unchanged, for every input string.
C4_Idempotent == nstage = "recanon" => recanon = canon

\* C4 witness: a name that canonicalisation changed (initials were spaced)
\* has been canonicalised a second time.
C4_Witness ==
    /\ nstage = "recanon"
    /\ canon # name
    /\ Len(canon) > Len(name)

\* C5: two names that differ only in the yo / ye letter forms (either case)
\* canonicalise to the same key.
C5_YoVariantsSameKey == nstage = "variant" => vcanon = canon

\* C5 witness: a variant that really differs from the name, in a capital and
\* in a small yo, has been canonicalised.
C5_Witness ==
    /\ nstage = "variant"
    /\ \E i, j \in 1..Len(name) :
         /\ name[i] = Ch.YO /\ variant[i] = Ch.YE
         /\ name[j] = Ch.ye /\ variant[j] = Ch.yo

(***************************************************************************)
(* search_index and search_teacher_schedule                                *)
(***************************************************************************)
\* a < b for str (code point order)
RECURSIVE LexLess(_, _)
LexLess(a, b) ==
    IF b = <<>> THEN FALSE
    ELSE IF a = <<>> THEN TRUE
    ELSE IF a[1] # b[1] THEN a[1] < b[1]
    ELSE LexLess(Tail(a), Tail(b))

\* the sort key (len(k), k)
KeyLess(a, b) == Len(a) < Len(b) \/ (Len(a) = Len(b) /\ LexLess(a, b))

\* a slip: the keys are sorted alphabetically, whatever their length
RECURSIVE SortKeys_Alphabetical(_)
SortKeys_Alphabetical(keys0) ==
    Only({IF keys = {} THEN <<>>
          ELSE Only({<<m>> \o SortKeys_Alphabetical(keys \ {m})
                       : m \in {CHOOSE k \in keys : \A o \in keys \ {k} : LexLess(k, o)}})
            : keys \in {keys0}})

\* sorted(keys, key=lambda k: (len(k), k))
RECURSIVE SortKeys(_)
SortKeys(keys0) ==
    Only({IF keys = {} THEN <<>>
          ELSE Only({<<m>> \o SortKeys(keys \ {m})
                       : m \in {CHOOSE k \in keys : \A o \in keys \ {k} : KeyLess(k, o)}})
            : keys \in {keys0}})

\* xs[:n]
Take(xs0, n) == Only({SubSeq(xs, 1, IF n < Len(xs) THEN n ELSE Len(xs)) : xs \in {xs0}})

\* a slip: the looser first-token pass is used from the start
search_index_FirstTokenOnly(index, q0, n) ==
    Only({IF keys = {} THEN <<>> ELSE Take(SortKeys(keys), n)
            : keys \in {Only({IF parts # <<>>
                              THEN {k \in index : Contains(normalize_name(k), parts[1])}
                              ELSE {}
                                : parts \in {SplitWS(normalize_name(q0))}})}})

\* the keys search_index prints, in order (<<>>: "nothing found")
search_index(index, q0, n) ==
    Only({Only({Only({Only({IF keys2 = {} THEN <<>> ELSE Take(SortKeys(keys2), n)
        \* 2) nothing yet: the first token of the query alone
        : keys2 \in {IF keys1 = {} /\ parts # <<>>
                     THEN {k \in index : Contains(normalize_name(k), parts[1])}
                     ELSE keys1}})
        : parts \in {SplitWS(q)}})
        \* 1) the keys that contain the query
        : keys1 \in {{k \in index : Contains(normalize_name(k), q)}}})
        : q \in {normalize_name(q0)}})

\* the names search_teacher_schedule keeps
search_teacher_schedule(schedule, q0) ==
    Only({{nm \in schedule : Contains(Lower(nm), q)} : q \in {Lower(Strip(q0, WS))}})

\* teacher names as keys of an index
Teacher == [
    \* "Ivanov I.I."
    IvanovII_dot |-> <<1048, 1074, 1072, 1085, 1086, 1074, 32, 1048, 46, 1048, 46>>,
    \* "Ivanov I.I  (no final period)"
    IvanovII |-> <<1048, 1074, 1072, 1085, 1086, 1074, 32, 1048, 46, 1048>>,
    \* "Ivanova A.A."
    IvanovaAA |-> <<1048, 1074, 1072, 1085, 1086, 1074, 1072, 32, 1040, 46, 1040, 46>>,
    \* "Petrov P.P."
    PetrovPP |-> <<1055, 1077, 1090, 1088, 1086, 1074, 32, 1055, 46, 1055, 46>>,
    \* "Petrov A.A."
    PetrovAA |-> <<1055, 1077, 1090, 1088, 1086, 1074, 32, 1040, 46, 1040, 46>>,
    \* "Semenov A.A.  (ye)"
    SemenovAA |-> <<1057, 1077, 1084, 1077, 1085, 1086, 1074, 32, 1040, 46, 1040, 46>>]

\* queries
Query == [
    \* "ivanov  (all small)"
    ivanov |-> <<1080, 1074, 1072, 1085, 1086, 1074>>,
    \* "Ivanov"
    Ivanov |-> <<1048, 1074, 1072, 1085, 1086, 1074>>,
    \* "IVANOV  (all capital)"
    IVANOV |-> <<1048, 1042, 1040, 1053, 1054, 1042>>,
    \* "Ivanov  followed by a space"
    Ivanov_sp |-> <<1048, 1074, 1072, 1085, 1086, 1074, 32>>,
    \* "Semyonov  (yo)"
    Semyonov |-> <<1057, 1077, 1084, 1105, 1085, 1086, 1074>>,
    \* "Petrov P.P."
    PetrovPP |-> <<1055, 1077, 1090, 1088, 1086, 1074, 32, 1055, 46, 1055, 46>>,
    \* "Petrov S.S."
    PetrovSS |-> <<1055, 1077, 1090, 1088, 1086, 1074, 32, 1057, 46, 1057, 46>>,
    \* "ov I"
    ov_I |-> <<1086, 1074, 32, 1048>>,
    \* "Sidorov"
    Sidorov |-> <<1057, 1080, 1076, 1086, 1088, 1086, 1074>>,
    \* "I. I."
    II_spaced |-> <<1048, 46, 32, 1048, 46>>]

MaxKeys == 2
DefaultTopN == 20
KeyPool == {Teacher.IvanovII_dot, Teacher.IvanovII, Teacher.IvanovaAA, Teacher.PetrovPP, Teacher.PetrovAA, Teacher.SemenovAA}
QueryPool == {Query.ivanov, Query.Ivanov, Query.IVANOV, Query.Ivanov_sp, Query.Semyonov, Query.PetrovPP,
              Query.PetrovSS, Query.ov_I, Query.Sidorov, Query.II_spaced, <<>>, <<Ch.sp>>}

SearchInit ==
    /\ idx \in {I \in SUBSET KeyPool : Cardinality(I) <= MaxKeys}
    /\ idx_exists \in BOOLEAN
    /\ (~idx_exists => idx = {})
    /\ query \in QueryPool
    /\ topn \in {1, 2, DefaultTopN}
    /\ result = <<>>
    /\ tresult = {}
    /\ sstage = "ready"
    /\ NormOff /\ ParseOff /\ BuildOff /\ LessonOff /\ AppOff

\* search_index: the index file is missing
SearchIndexMissing ==
    /\ sstage = "ready" /\ ~idx_exists
    /\ sstage' = "exit2"
    /\ UNCHANGED <<idx, idx_exists, query, topn, result, tresult>>
    /\ UNCHANGED SearchOthers

\* search_index: nothing matches, "nothing found" is printed
SearchIndexNone ==
    /\ sstage = "ready" /\ idx_exists
    /\ search_index(idx, query, topn) = <<>>
    /\ result' = <<>>
    /\ sstage' = "none"
    /\ UNCHANGED <<idx, idx_exists, query, topn, tresult>>
    /\ UNCHANGED SearchOthers

\* search_index: the matching keys are printed
SearchIndexFound ==
    /\ sstage = "ready" /\ idx_exists
    /\ \E keys \in {search_index(idx, query, topn)} :
         /\ keys # <<>>
         /\ result' = keys
    /\ sstage' = "printed"
    /\ UNCHANGED <<idx, idx_exists, query, topn, tresult>>
    /\ UNCHANGED SearchOthers

\* search_teacher_schedule over the same names
SearchTeacherSchedule ==
    /\ sstage = "ready" /\ idx_exists
    /\ tresult' = search_teacher_schedule(idx, query)
    /\ sstage' = "filtered"
    /\ UNCHANGED <<idx, idx_exists, query, topn, result>>
    /\ UNCHANGED SearchOthers

SearchNext ==
    \/ SearchIndexMissing
    \/ SearchIndexNone
    \/ SearchIndexFound
    \/ SearchTeacherSchedule

SpecSearch == SearchInit /\ [][SearchNext]_vars

Searched == sstage \in {"none", "printed"}

\* C9: searching an index whose only key is "Ivanov I.I." for the query
\* "ivanov" written in any letter case returns exactly that key.
C9_AnyCaseFindsKey ==
    (Searched /\ idx = {Teacher.IvanovII_dot} /\ Lower(query) = Query.ivanov)
        => result = <<Teacher.IvanovII_dot>>

\* s is a substring of k and differs from it
StrictSubstring(s, k) == Contains(k, s) /\ s # k

\* C10 as stated: a query that is a strict substring of exactly one key gets
\* exactly that key; a query that, like its first token, is a substring of no
\* key gets the empty result (and the search ends without error).
C10_AsStated ==
    Searched =>
      /\ \A k \in idx :
           (StrictSubstring(query, k) /\ \A o \in idx \ {k} : ~StrictSubstring(query, o))
             => result = <<k>>
      /\ ( /\ \A k \in idx : ~Contains(k, query)
           /\ \A k \in idx : SplitWS(query) # <<>> => ~Contains(k, SplitWS(query)[1]) )
             => (result = <<>> /\ sstage = "none")

\* k matches q: the canonical query is a substring of the canonical key
Matches(k, q) == Contains(normalize_name(k), normalize_name(q))
FirstTokenMatches(k, q) ==
    /\ SplitWS(normalize_name(q)) # <<>>
    /\ Contains(normalize_name(k), SplitWS(normalize_name(q))[1])

\* C10 amended: if the canonicalised query is a substring of the canonical
\* form of exactly one index key, search returns exactly that key; if neither
\* the canonicalised query nor its first whitespace-delimited token is a
\* substring of any canonicalised key, search reports "nothing found" with
\* an empty result and no error exit.
C10_CanonicalSubstring ==
    Searched =>
      /\ \A k \in idx :
           (Matches(k, query) /\ \A o \in idx \ {k} : ~Matches(o, query))
             => (result = <<k>> /\ sstage = "printed")
      /\ (\A k \in idx : ~Matches(k, query) /\ ~FirstTokenMatches(k, query))
             => (result = <<>> /\ sstage = "none")

\* C10 witness: two keys share the first token of the query, the canonical
\* query is a strict substring of one of them only, and that key was printed.
C10_Witness ==
    /\ sstage = "printed"
    /\ Cardinality(idx) = 2
    /\ \A k \in idx : FirstTokenMatches(k, query)
    /\ \E k \in idx :
         /\ Matches(k, query) /\ normalize_name(query) # k
         /\ \A o \in idx \ {k} : ~Matches(o, query)
         /\ result = <<k>>

(***************************************************************************)
(* SpecParse: parse_ics over bounded payloads, one line at a step          *)
(***************************************************************************)
\* how many events a payload holds at most
MaxEvents == 2

\* the events of the payloads parsed line by line: all but the two that differ
\* from Room and from Dots in one character of a value
ParseEvents == DOMAIN EVENTS \ {"RoomOther", "DotsSp"}

ParseTexts ==
    {Payload(h, es) : h \in DOMAIN HEADERS,
                      es \in UNION {[1..n -> ParseEvents] : n \in 0..MaxEvents}}

ParseInit ==
    /\ ics_text \in ParseTexts
    /\ lines = <<>> /\ group_code = <<>> /\ ev = EmptyDict
    /\ in_event = FALSE /\ lessons = <<>> /\ ln_no = 0 /\ pstage = "start"
    /\ NormOff /\ SearchOff /\ BuildOff /\ LessonOff /\ AppOff

\* lines = unfold_ics(ics_text), then the search for the group code
ParseUnfold ==
    /\ pstage = "start"
    /\ \E lns \in {unfold_ics(ics_text)} :
         /\ lines' = lns
         /\ group_code' = GroupCode(lns)
    /\ ln_no' = 1
    /\ pstage' = "loop"
    /\ UNCHANGED <<ics_text, ev, in_event, lessons>>
    /\ UNCHANGED ParseOthers

\* the loop body for the line at ln_no
LoopBody ==
    /\ \E st \in {ParseLine([ev |-> ev, in_event |-> in_event, lessons |-> lessons],
                            lines[ln_no], group_code)} :
         /\ ev' = st.ev
         /\ in_event' = st.in_event
         /\ lessons' = st.lessons
    /\ ln_no' = ln_no + 1
    /\ UNCHANGED <<ics_text, lines, group_code, pstage>>
    /\ UNCHANGED ParseOthers

\* if ln.startswith("BEGIN:VEVENT")
BeginEvent == pstage = "loop" /\ ln_no <= Len(lines) /\ LineKind(lines[ln_no], in_event) = "begin" /\ LoopBody
\* if ln.startswith("END:VEVENT"): flush_event()
EndEvent == pstage = "loop" /\ ln_no <= Len(lines) /\ LineKind(lines[ln_no], in_event) = "end" /\ LoopBody
\* if not in_event: continue
OutsideEvent == pstage = "loop" /\ ln_no <= Len(lines) /\ LineKind(lines[ln_no], in_event) = "outside" /\ LoopBody
\* if ":" not in ln: continue
NoColon == pstage = "loop" /\ ln_no <= Len(lines) /\ LineKind(lines[ln_no], in_event) = "nocolon" /\ LoopBody
\* ev[key] = val.strip()
KeptProperty == pstage = "loop" /\ ln_no <= Len(lines) /\ LineKind(lines[ln_no], in_event) = "kept" /\ LoopBody
\* a property parse_ics does not keep
OtherProperty == pstage = "loop" /\ ln_no <= Len(lines) /\ LineKind(lines[ln_no], in_event) = "other" /\ LoopBody

\* return group_code, lessons
ParseReturn ==
    /\ pstage = "loop"
    /\ ln_no > Len(lines)
    /\ pstage' = "done"
    /\ UNCHANGED <<ics_text, lines, group_code, ev, in_event, lessons, ln_no>>
    /\ UNCHANGED ParseOthers

ParseNext ==
    \/ ParseUnfold
    \/ BeginEvent
    \/ EndEvent
    \/ OutsideEvent
    \/ NoColon
    \/ KeptProperty
    \/ OtherProperty
    \/ ParseReturn

SpecParse == ParseInit /\ [][ParseNext]_vars

\* the numbers of the property lines of the event that line k would close:
\* those after the last BEGIN:VEVENT, if no END:VEVENT closed it before
EventOf(k) ==
    LET begins == {j \in 1..(k - 1) : StartsWith(lines[j], S_BEGIN)}
        b == CHOOSE x \in begins : \A y \in begins : y <= x
    IN  IF begins = {} \/ \E j \in (b + 1)..(k - 1) : StartsWith(lines[j], S_END)
        THEN {}
        ELSE {j \in (b + 1)..(k - 1) : FindCh(lines[j], Ch.colon, 0) >= 0}

\* what that event gives for the property key: <<>> if nothing, else <<value>>
\* (of several lines with the same key the last one counts)
OwnValue(k, key) ==
    LET js == {j \in EventOf(k) : LineKey(lines[j]) = KEYS[key]}
        j == CHOOSE x \in js : \A y \in js : y <= x
    IN  IF js = {} THEN <<>>
        ELSE <<Strip(Slice(lines[j], FindCh(lines[j], Ch.colon, 0) + 1, Len(lines[j])), WS)>>

\* the event has a time under key that is present, no bare date, and parseable
UsableTime(k, key) ==
    LET v == OwnValue(k, key)
    IN  v # <<>> /\ Len(v[1]) # 8 /\ parse_dt(v[1]) # <<>>

\* C6: a step of parse_ics adds lessons only when it closes an event whose
\* DTSTART and DTEND are both present, not 8-character dates, and parseable;
\* so an event without a usable start or end time contributes no Lesson,
\* whatever events stand before or after it in the payload.
C6_NoTimeNoLesson ==
    [][lessons' # lessons =>
          /\ pstage = "loop" /\ ln_no <= Len(lines)
          /\ StartsWith(lines[ln_no], S_END)
          /\ UsableTime(ln_no, "DTSTART")
          /\ UsableTime(ln_no, "DTEND")]_vars

\* a finished parse that produced lessons from a payload which also holds a
\* closed event with a summary whose DTEND is a bare 8-character date
C6_Witness ==
    /\ pstage = "done"
    /\ lessons # <<>>
    /\ \E k \in 1..Len(lines) :
         /\ StartsWith(lines[k], S_END)
         /\ OwnValue(k, "SUMMARY") # <<>>
         /\ UsableTime(k, "DTSTART")
         /\ OwnValue(k, "DTEND") # <<>>
         /\ Len(OwnValue(k, "DTEND")[1]) = 8

\* the teacher names extract_teachers finds in the event that line k closes
OwnTeachers(k) ==
    extract_teachers(IF OwnValue(k, "DESCRIPTION") = <<>> THEN <<>>
                     ELSE OwnValue(k, "DESCRIPTION")[1],
                     IF OwnValue(k, "SUMMARY") = <<>> THEN <<>>
                     ELSE OwnValue(k, "SUMMARY")[1])

\* C8: a step of parse_ics adds no lesson when no teacher name is extracted
\* from the event it closes, and every lesson emitted carries a non-empty
\* teacher name whose index key (its canonical form) is non-empty too.
C8_NoTeacherNoLesson ==
    [][/\ lessons' # lessons => OwnTeachers(ln_no) # <<>>
       /\ \A i \in 1..Len(lessons') :
            /\ lessons'[i].teacher # <<>>
            /\ normalize_name(lessons'[i].teacher) # <<>>]_vars

\* "Fizika lab."
S_FizikaLab == <<1060, 1080, 1079, 1080, 1082, 1072, 32, 1083, 1072, 1073, 46>>

\* a finished parse of a payload with a closed event that has the summary
\* "Fizika lab.", an empty description and usable times, and from which no
\* teacher is extracted; the parse emitted a lesson from another event
C8_Witness ==
    /\ pstage = "done"
    /\ Len(lessons) = 1
    /\ \E k \in 1..Len(lines) :
         /\ StartsWith(lines[k], S_END)
         /\ OwnValue(k, "SUMMARY") = <<S_FizikaLab>>
         /\ OwnValue(k, "DESCRIPTION") = <<<<>>>>
         /\ UsableTime(k, "DTSTART") /\ UsableTime(k, "DTEND")
         /\ OwnTeachers(k) = <<>>

(***************************************************************************)
(* http_get and the fold of build_index                                    *)
(***************************************************************************)
\* What the server behind a URL does with a request: it answers with a
\* status and a body ("reply"), the request fails with a RequestException
\* ("error"), or no answer comes ("silent": a requests.Timeout once the
\* timeout of the call runs out, no end at all for a call without timeout).
Reply(status, text) == [kind |-> "reply", status |-> status, text |-> text]
Failure(kind) == [kind |-> kind, status |-> 0, text |-> <<>>]

\* a slip: no except clause, so an exception of requests.get leaves http_get
http_get_NoExcept(resp) ==
    IF resp.kind \in {"error", "silent"} THEN [exc |-> TRUE, val |-> <<>>]
    ELSE IF resp.status = 200 /\ resp.text # <<>> THEN [exc |-> FALSE, val |-> <<resp.text>>]
    ELSE [exc |-> FALSE, val |-> <<>>]

\* http_get (always called with timeout 30.0): val is <<>> for None, else
\* <<r.text>>; exc tells whether an exception leaves the function
http_get(resp) ==
    IF resp.kind \in {"error", "silent"} THEN [exc |-> FALSE, val |-> <<>>]
    ELSE IF resp.status = 200 /\ resp.text # <<>> THEN [exc |-> FALSE, val |-> <<resp.text>>]
    ELSE [exc |-> FALSE, val |-> <<>>]

\* The sources of a run.
\* how many sources (group URLs, group UUIDs) a run is given at most
MaxSources == 2

\* the calendars the sources may serve
SourcePayloads ==
    {Payload("IU3", <<"Room">>), Payload("IU3", <<"RoomOther">>),
     Payload("IU3", <<"Room", "RoomOther">>), Payload("IU7", <<"Desc", "Room">>),
     Payload("IU3", <<"Dots", "DotsSp">>), Payload("IU3", <<"NoTeacher">>)}

\* what a source may do with the request for its calendar
Responses ==
    {Failure("error"), Failure("silent"), Reply(200, <<>>),
     Reply(404, Payload("IU7", <<"Room">>))} \cup {Reply(200, t) : t \in SourcePayloads}

\* parse_ics of every text a source may answer with: parse_ics is a function
\* of the text alone, so each text is parsed once and looked up afterwards
ParsedTexts == [t \in {r.text : r \in Responses} |-> parse_ics(t)]

\* the dict build_index stores for a lesson
Entry(L) == [group |-> L.group, subject |-> L.subject, day |-> L.day,
             time |-> L.time, room |-> L.room]

\* a slip: an entry counts as known when subject, day and time agree
AddLesson_IgnoreGroup(index0, L0) ==
    Only({IF key \notin DOMAIN index THEN Put(index, key, <<entry>>)
          ELSE IF \E n \in 1..Len(index[key]) :
                    /\ index[key][n].subject = entry.subject
                    /\ index[key][n].day = entry.day
                    /\ index[key][n].time = entry.time
               THEN index
               ELSE Put(index, key, Append(index[key], entry))
            : index \in {index0}, key \in {normalize_name(L0.teacher)}, entry \in {Entry(L0)}})

\* key = normalize_name(L.teacher); if entry not in teachers_index[key]: append
AddLesson(index0, L0) ==
    Only({IF key \notin DOMAIN index THEN Put(index, key, <<entry>>)
          ELSE IF \E n \in 1..Len(index[key]) : index[key][n] = entry
               THEN index
               ELSE Put(index, key, Append(index[key], entry))
            : index \in {index0}, key \in {normalize_name(L0.teacher)}, entry \in {Entry(L0)}})

\* for L in lessons: ... , from the k-th lesson on
RECURSIVE AddLessons(_, _, _)
AddLessons(index0, ls, k) ==
    IF k > Len(ls) THEN index0
    ELSE Only({AddLessons(index, ls, k + 1) : index \in {AddLesson(index0, ls[k])}})

\* groups_raw.setdefault(group_code, {...}) and the appends to its "lessons"
AddRaw(raw0, gcode, url, ls) ==
    Only({Put(raw, gcode, IF gcode \in DOMAIN raw
                          THEN [raw[gcode] EXCEPT !.lessons = @ \o ls]
                          ELSE [ics_url |-> url, lessons |-> ls])
            : raw \in {raw0}})

\* the body of the as_completed loop for one future, on teachers_index alone
AfterFuture(index0, resp) ==
    Only({IF r.val = <<>> THEN index0
          ELSE AddLessons(index0, ParsedTexts[r.val[1]].lessons, 1)
            : r \in {http_get(resp)}})

\* teachers_index after the futures of the sources order[k..], taken in that order
RECURSIVE IndexOf(_, _, _, _)
IndexOf(index0, srv, order, k) ==
    IF k > Len(order) THEN index0
    ELSE Only({IndexOf(index, srv, order, k + 1)
                 : index \in {AfterFuture(index0, srv[order[k]])}})

(***************************************************************************)
(* get_group_schedule and aggregate_teachers_from_groups                   *)
(***************************************************************************)
\* an answer of the API: a status and, when the body is JSON, its lessons
ApiReply(status, json, ls) ==
    [kind |-> "reply", status |-> status, json |-> json, lessons |-> ls]
ApiFailure(kind) == [kind |-> kind, status |-> 0, json |-> FALSE, lessons |-> <<>>]

\* get_group_schedule: exc when requests.get, raise_for_status or
\* response.json raises, else the lessons of the answer
get_group_schedule(reply) ==
    IF reply.kind = "error" THEN [exc |-> TRUE, lessons |-> <<>>]
    ELSE IF reply.status >= 400 THEN [exc |-> TRUE, lessons |-> <<>>]
    ELSE IF ~reply.json THEN [exc |-> TRUE, lessons |-> <<>>]
    ELSE [exc |-> FALSE, lessons |-> reply.lessons]

\* ", ".join(xs), from the k-th element on
RECURSIVE JoinComma(_, _)
JoinComma(xs, k) ==
    IF k > Len(xs) THEN <<>>
    ELSE xs[k] \o (IF k < Len(xs) THEN <<Ch.comma, Ch.sp>> ELSE <<>>) \o JoinComma(xs, k + 1)

\* Lesson.to_dict
to_dict(L) ==
    [date |-> L.date, start |-> L.start_time, end |-> L.end_time,
     discipline |-> L.discipline, room |-> L.room,
     groups |-> JoinComma(L.groups, 1), teachers |-> JoinComma(L.teachers, 1)]

\* for teacher_name in lesson.teachers: teacher_schedule[teacher_name].append(...)
RECURSIVE AddToTeachers(_, _, _)
AddToTeachers(sched0, L, k) ==
    IF k > Len(L.teachers) THEN sched0
    ELSE Only({AddToTeachers(Put(sched, L.teachers[k],
                                 Append(Get(sched, L.teachers[k]), to_dict(L))), L, k + 1)
                 : sched \in {sched0}})

\* for lesson in lessons: ... , from the k-th lesson on
RECURSIVE AddGroupLessons(_, _, _)
AddGroupLessons(sched0, ls, k) ==
    IF k > Len(ls) THEN sched0
    ELSE Only({AddGroupLessons(sched, ls, k + 1) : sched \in {AddToTeachers(sched0, ls[k], 1)}})

\* the body of the loop of aggregate_teachers_from_groups for one group
AfterGroup(sched0, reply) ==
    Only({IF r.exc THEN sched0 ELSE AddGroupLessons(sched0, r.lessons, 1)
            : r \in {get_group_schedule(reply)}})

\* teacher_schedule after the groups rs[k..]
RECURSIVE ScheduleOf(_, _, _)
ScheduleOf(sched0, rs, k) ==
    IF k > Len(rs) THEN sched0
    ELSE Only({ScheduleOf(sched, rs, k + 1) : sched \in {AfterGroup(sched0, rs[k])}})

(***************************************************************************)
(* Spec: a run of build_index, or of aggregate_teachers_from_groups        *)
(***************************************************************************)
\* the two files left by an earlier run: the index and the raw group data
OldIndex == Put(EmptyDict, Teacher.PetrovPP, <<>>)
OldGroups == Put(EmptyDict, S_UNKNOWN, [ics_url |-> 1, lessons |-> <<>>])

\* two lessons as get_group_schedule returns them
ApiLessons ==
    <<[date |-> <<50, 48, 50, 52, 45, 48, 50, 45, 48, 56>>, start_time |-> <<49, 48, 58, 49, 53>>, end_time |-> <<49, 49, 58, 52, 53>>, discipline |-> <<1060, 1080, 1079, 1080, 1082, 1072>>,
       room |-> <<>>, groups |-> <<<<103, 49>>, <<103, 50>>>>, teachers |-> <<Teacher.IvanovaAA, Teacher.PetrovPP>>],
      [date |-> <<50, 48, 50, 52, 45, 48, 50, 45, 48, 57>>, start_time |-> <<49, 48, 58, 49, 53>>, end_time |-> <<49, 49, 58, 52, 53>>, discipline |-> <<1060, 1080, 1079, 1080, 1082, 1072>>,
       room |-> <<53, 48, 49>>, groups |-> <<<<103, 49>>>>, teachers |-> <<Teacher.PetrovPP>>]>>

\* what the API may do with the request for a group's schedule
ApiReplies ==
    {ApiFailure("error"), ApiFailure("silent"), ApiReply(404, TRUE, <<>>),
     ApiReply(200, FALSE, <<>>), ApiReply(200, TRUE, <<>>),
     ApiReply(200, TRUE, ApiLessons), ApiReply(200, TRUE, SubSeq(ApiLessons, 2, 2))}

\* build_index with the list clean_urls made (source i is its i-th URL), or
\* aggregate_teachers_from_groups called with a list of groups
Init ==
    /\ \/ /\ prog = "build_index"
          /\ served \in UNION {[1..n -> Responses] : n \in 0..MaxSources}
          /\ index_file \in {<<>>, <<OldIndex>>}
          /\ groups_file = IF index_file = <<>> THEN <<>> ELSE <<OldGroups>>
          /\ replies = <<>> /\ group_no = 0
          /\ pc = "start"
       \/ /\ prog = "aggregate"
          /\ replies \in UNION {[1..n -> ApiReplies] : n \in 0..MaxSources}
          /\ served = <<>> /\ index_file = <<>> /\ groups_file = <<>>
          /\ group_no = 1
          /\ pc = "loop"
    /\ pending = {} /\ completed = <<>>
    /\ groups_raw = EmptyDict /\ teachers_index = EmptyDict
    /\ teacher_schedule = EmptyDict
    /\ NormOff /\ SearchOff /\ ParseOff /\ LessonOff /\ AppOff

\* a slip: without URLs the run saves its empty results before it exits
NoUrls_SavesEmpty ==
    /\ prog = "build_index" /\ pc = "start"
    /\ served = <<>>
    /\ groups_file' = <<groups_raw>>
    /\ index_file' = <<teachers_index>>
    /\ pc' = "exit2"
    /\ UNCHANGED <<prog, served, pending, completed, groups_raw, teachers_index,
                   replies, group_no, teacher_schedule>>
    /\ UNCHANGED BuildOthers

\* if not clean_urls: sys.exit(2)
NoUrls ==
    /\ prog = "build_index" /\ pc = "start"
    /\ served = <<>>
    /\ pc' = "exit2"
    /\ UNCHANGED <<prog, served, pending, completed, groups_raw, teachers_index,
                   index_file, groups_file, replies, group_no, teacher_schedule>>
    /\ UNCHANGED BuildOthers

\* futures = [ex.submit(worker, u) for u in clean_urls]
Submit ==
    /\ prog = "build_index" /\ pc = "start"
    /\ served # <<>>
    /\ pending' = DOMAIN served
    /\ pc' = "fetch"
    /\ UNCHANGED <<prog, served, completed, groups_raw, teachers_index,
                   index_file, groups_file, replies, group_no, teacher_schedule>>
    /\ UNCHANGED BuildOthers

\* as_completed yields the future of source i, and fut.result() gives no text
\* (continue) or raises what the worker raised (the run ends there)
FutureSkipped(i) ==
    /\ prog = "build_index" /\ pc = "fetch"
    /\ i \in pending
    /\ \E r \in {http_get(served[i])} :
         /\ r.exc \/ r.val = <<>>
         /\ pc' = IF r.exc THEN "crashed" ELSE pc
    /\ pending' = pending \ {i}
    /\ completed' = Append(completed, i)
    /\ UNCHANGED <<prog, served, groups_raw, teachers_index,
                   index_file, groups_file, replies, group_no, teacher_schedule>>
    /\ UNCHANGED BuildOthers

\* as_completed yields the future of source i, whose text holds no lesson
FutureNoLessons(i) ==
    /\ prog = "build_index" /\ pc = "fetch"
    /\ i \in pending
    /\ \E r \in {http_get(served[i])} :
         /\ ~r.exc /\ r.val # <<>>
         /\ ParsedTexts[r.val[1]].lessons = <<>>
    /\ pending' = pending \ {i}
    /\ completed' = Append(completed, i)
    /\ UNCHANGED <<prog, served, groups_raw, teachers_index,
                   index_file, groups_file, replies, group_no, teacher_schedule, pc>>
    /\ UNCHANGED BuildOthers

\* as_completed yields the future of source i, whose lessons go into
\* groups_raw and teachers_index
FutureLessons(i) ==
    /\ prog = "build_index" /\ pc = "fetch"
    /\ i \in pending
    /\ \E r \in {http_get(served[i])} :
         /\ ~r.exc /\ r.val # <<>>
         /\ \E parsed \in {ParsedTexts[r.val[1]]} :
              /\ parsed.lessons # <<>>
              /\ groups_raw' = AddRaw(groups_raw, parsed.group_code, i, parsed.lessons)
              /\ teachers_index' = AddLessons(teachers_index, parsed.lessons, 1)
    /\ pending' = pending \ {i}
    /\ completed' = Append(completed, i)
    /\ UNCHANGED <<prog, served, index_file, groups_file, replies, group_no, teacher_schedule, pc>>
    /\ UNCHANGED BuildOthers

\* json.dump(groups_raw, ...); json.dump(teachers_index, ...)
Save ==
    /\ prog = "build_index" /\ pc = "fetch"
    /\ pending = {}
    /\ groups_file' = <<groups_raw>>
    /\ index_file' = <<teachers_index>>
    /\ pc' = "saved"
    /\ UNCHANGED <<prog, served, pending, completed, groups_raw, teachers_index,
                   replies, group_no, teacher_schedule>>
    /\ UNCHANGED BuildOthers

\* get_group_schedule(group_id) raises: print and continue
GroupFailed ==
    /\ prog = "aggregate" /\ pc = "loop"
    /\ group_no <= Len(replies)
    /\ replies[group_no].kind # "silent"
    /\ get_group_schedule(replies[group_no]).exc
    /\ group_no' = group_no + 1
    /\ UNCHANGED <<prog, served, pending, completed, groups_raw, teachers_index,
                   index_file, groups_file, replies, teacher_schedule, pc>>
    /\ UNCHANGED BuildOthers

\* get_group_schedule(group_id) returns: its lessons go under their teachers
GroupLoaded ==
    /\ prog = "aggregate" /\ pc = "loop"
    /\ group_no <= Len(replies)
    /\ replies[group_no].kind # "silent"
    /\ ~get_group_schedule(replies[group_no]).exc
    /\ teacher_schedule' = AfterGroup(teacher_schedule, replies[group_no])
    /\ group_no' = group_no + 1
    /\ UNCHANGED <<prog, served, pending, completed, groups_raw, teachers_index,
                   index_file, groups_file, replies, pc>>
    /\ UNCHANGED BuildOthers

\* return teacher_schedule
AggregateReturn ==
    /\ prog = "aggregate" /\ pc = "loop"
    /\ group_no > Len(replies)
    /\ pc' = "returned"
    /\ UNCHANGED <<prog, served, pending, completed, groups_raw, teachers_index,
                   index_file, groups_file, replies, group_no, teacher_schedule>>
    /\ UNCHANGED BuildOthers

Next ==
    \/ NoUrls
    \/ Submit
    \/ \E i \in 1..MaxSources : FutureSkipped(i)
    \/ \E i \in 1..MaxSources : FutureNoLessons(i)
    \/ \E i \in 1..MaxSources : FutureLessons(i)
    \/ Save
    \/ GroupFailed
    \/ GroupLoaded
    \/ AggregateReturn

Spec == Init /\ [][Next]_vars

\* the (group, subject, day, time) of an index entry
FourTuple(e) == <<e.group, e.subject, e.day, e.time>>

\* C1: under every teacher key of the index, no two entries agree on all of
\* (group, subject, day, time): a lesson that matches an entry on these four
\* and differs in the room is not added.
C1_NoTwoOnFourTuple ==
    prog = "build_index" =>
        \A key \in DOMAIN teachers_index :
            \A m, n \in 1..Len(teachers_index[key]) :
                m # n => FourTuple(teachers_index[key][m]) # FourTuple(teachers_index[key][n])

\* teacher key -> set of (group, subject, day, time)
FourTuples(index) ==
    [key \in DOMAIN index |-> {FourTuple(index[key][n]) : n \in 1..Len(index[key])}]

\* the sources 1..n, in the order of clean_urls
ListOrder == [i \in 1..Len(served) |-> i]

\* C2: whatever the order in which the fetches complete, the saved index maps
\* every teacher key to the same set of (group, subject, day, time) as the
\* index folded from the sources in the order of the list.
C2_OrderIndependent ==
    (prog = "build_index" /\ pc = "saved") =>
        FourTuples(teachers_index) = FourTuples(IndexOf(EmptyDict, served, ListOrder, 1))

\* a saved run whose two sources completed in the reverse of the list order,
\* both adding entries under one teacher key
C2_Witness ==
    /\ prog = "build_index" /\ pc = "saved"
    /\ completed = <<2, 1>>
    /\ \E key \in DOMAIN teachers_index :
         \E m, n \in 1..Len(teachers_index[key]) :
            teachers_index[key][m].group # teachers_index[key][n].group

\* the fetch of a source succeeded: an answer with status 200 and a body
Succeeded(resp) == resp.kind = "reply" /\ resp.status = 200 /\ resp.text # <<>>
ApiSucceeded(reply) == reply.kind = "reply" /\ reply.status < 400 /\ reply.json

C7_OneLessonUnderCanonicalKey ==
    (/\ prog = "build_index" /\ pc = "saved"
     /\ served = <<Reply(200, Payload("IU3", <<"Dots", "DotsSp">>))>>)
    => /\ DOMAIN teachers_index = {Teacher.IvanovII_dot}
       /\ Len(teachers_index[Teacher.IvanovII_dot]) = 1

(***************************************************************************)
(* The web application: search, the teacher view and its JSON twin         *)
(*                                                                         *)
(* A JSON object is a function from its keys; a missing key is a key that  *)
(* is not in its domain.  A number that may be null is <<n>> or <<>>.      *)
(***************************************************************************)
\* item.get(key, default)
Field(item, key, default) == IF key \in DOMAIN item THEN item[key] ELSE default

\* str(n) of a number n >= 0
RECURSIVE Str(_)
Str(n) == IF n < 10 THEN <<48 + n>> ELSE Str(n \div 10) \o <<48 + (n % 10)>>

\* what the upstream server does with a request: a reply with a status, a
\* body that is JSON or not, and the decoded body; or no reply (the
\* connection fails, or nothing comes within the timeout)
Upstream(status, json, body) == [kind |-> "reply", status |-> status, json |-> json, body |-> body]
NoReply(kind) == [kind |-> kind, status |-> 0, json |-> FALSE, body |-> <<>>]

\* requests.get(url, ..., timeout=...); r.raise_for_status(); r.json():
\* exc names the exception raised, "" when val is returned
fetch(resp) ==
    IF resp.kind = "refused" THEN [exc |-> "ConnectionError", status |-> 0, val |-> <<>>]
    ELSE IF resp.kind = "silent" THEN [exc |-> "Timeout", status |-> 0, val |-> <<>>]
    ELSE IF resp.status >= 400 /\ resp.status < 600
         THEN [exc |-> "HTTPError", status |-> resp.status, val |-> <<>>]
    ELSE IF ~resp.json THEN [exc |-> "JSONDecodeError", status |-> 0, val |-> <<>>]
    ELSE [exc |-> "", status |-> resp.status, val |-> resp.body]

\* search_teachers: the rows of the reply whose type is "teacher"
search_teachers(resp) ==
    LET r == fetch(resp)
    IN  IF r.exc # "" THEN r
        ELSE [r EXCEPT !.val = SelectSeq(r.val, LAMBDA row : Field(row, "type", <<>>) = <<116, 101, 97, 99, 104, 101, 114>>)]

\* fetch_teacher_schedule
fetch_teacher_schedule(resp) == fetch(resp)

\* the key of sorted(schedule, ...): (int(x.get("day", 0)), int(x.get("time", 0)))
SortKey(x) == <<Field(x, "day", <<0>>)[1], Field(x, "time", <<0>>)[1]>>
\* int(None) raises TypeError
Sortable(x) == Field(x, "day", <<0>>) # <<>> /\ Field(x, "time", <<0>>) # <<>>
PairLess(a, b) == a[1] < b[1] \/ (a[1] = b[1] /\ a[2] < b[2])

\* sorted(schedule, key=...), which keeps the order of items with equal keys
RECURSIVE schedule_sorted(_)
schedule_sorted(schedule) ==
    IF schedule = <<>> THEN <<>>
    ELSE LET done == schedule_sorted(SubSeq(schedule, 1, Len(schedule) - 1))
             x == schedule[Len(schedule)]
             p == Cardinality({i \in 1..Len(done) : ~PairLess(SortKey(x), SortKey(done[i]))})
         IN  SubSeq(done, 1, p) \o <<x>> \o SubSeq(done, p + 1, Len(done))

\* week_names
week_names == [all |-> <<1042, 1089, 1077, 32, 1085, 1077, 1076, 1077, 1083, 1080>>, ch |-> <<1063, 1080, 1089, 1083, 1080, 1090, 1077, 1083, 1100>>, zn |-> <<1047, 1085, 1072, 1084, 1077, 1085, 1072, 1090, 1077, 1083, 1100>>]
S_all == <<97, 108, 108>>
S_ch == <<99, 104>>
S_zn == <<122, 110>>
\* week_names.get(wk, wk or "")
WeekLabel(wk) ==
    IF wk = S_all THEN week_names.all
    ELSE IF wk = S_ch THEN week_names.ch
    ELSE IF wk = S_zn THEN week_names.zn
    ELSE wk

\* pick_week_key(item.get("week"))
pick_week_key(raw) ==
    LET val == Lower(IF raw = <<>> THEN S_all ELSE raw)
    IN  IF val \notin {S_ch, S_zn} THEN S_all ELSE val

\* (item.get("startTime") or "", item.get("endTime") or "", str(item.get("time") or ""))
time_key(item) ==
    <<Field(item, "startTime", <<>>), Field(item, "endTime", <<>>),
      LET t == Field(item, "time", <<>>)
      IN  IF t = <<>> \/ t = <<0>> THEN <<>> ELSE Str(t[1])>>

\* int(item.get("day", 0) or 0)
day_key(item) ==
    LET d == Field(item, "day", <<0>>)
    IN  IF d = <<>> THEN 0 ELSE d[1]

\* time_sort_key compared: tuples of three str
TimeKeyLess(a, b) ==
    \/ LexLess(a[1], b[1])
    \/ a[1] = b[1] /\ LexLess(a[2], b[2])
    \/ a[1] = b[1] /\ a[2] = b[2] /\ LexLess(a[3], b[3])

\* time_keys after time_keys.sort(key=time_sort_key)
RECURSIVE SortTimeKeys(_)
SortTimeKeys(keys) ==
    IF keys = {} THEN <<>>
    ELSE LET m == CHOOSE k \in keys : \A o \in keys \ {k} : TimeKeyLess(k, o)
         IN  <<m>> \o SortTimeKeys(keys \ {m})

time_keys(sorted) == SortTimeKeys({time_key(sorted[i]) : i \in 1..Len(sorted)})

\* grid[time_key][day_key]: the items of one cell, in the order they were appended
GridCell(sorted, tk, day) ==
    SelectSeq(sorted, LAMBDA item : time_key(item) = tk /\ day_key(item) = day)

\* grid[time_key][day_key][wk]
GridWeek(cell, wk) ==
    SelectSeq(cell, LAMBDA item : pick_week_key(Field(item, "week", <<>>)) = wk)

\* the keys of grid[time_key][day_key], in the order they were inserted
GridWeeks(cell) ==
    Uniq([i \in 1..Len(cell) |-> pick_week_key(Field(cell[i], "week", <<>>))], 1, {})

\* cell_map[day] for one row
cell_map(sorted, tk, day) ==
    LET cell == GridCell(sorted, tk, day)
        others == SelectSeq(GridWeeks(cell), LAMBDA wk : wk \notin {S_all, S_ch, S_zn})
        cell_other == [i \in 1..Len(others) |->
                          [key |-> others[i], label |-> WeekLabel(others[i]),
                           items |-> GridWeek(cell, others[i])]]
    IN  [all |-> GridWeek(cell, S_all), ch |-> GridWeek(cell, S_ch),
         zn |-> GridWeek(cell, S_zn), other |-> cell_other,
         has_content |-> cell # <<>>]

\* timetable_rows
timetable_rows(sorted) ==
    LET keys == time_keys(sorted)
    IN  [r \in 1..Len(keys) |->
            [start |-> keys[r][1], end |-> keys[r][2], pair |-> keys[r][3],
             cells |-> [day \in 1..7 |-> cell_map(sorted, keys[r], day)]]]

\* what a handler answers with
Redirect(to, flashed) == [kind |-> "redirect", to |-> to, flash |-> flashed, body |-> <<>>]
Render(template, body) == [kind |-> "render", to |-> template, flash |-> "", body |-> body]
Raised(exc) == [kind |-> "raised", to |-> exc, flash |-> "", body |-> <<>>]
Json(data) == [kind |-> "json", to |-> "", flash |-> "", body |-> data]

\* search(): the answer to GET /search?q=...
search(q0, resp) ==
    LET q == Strip(q0, WS)
        r == search_teachers(resp)
    IN  IF q = <<>> THEN Redirect("index", "warn")
        ELSE IF r.exc = "HTTPError" /\ r.status = 401 THEN Redirect("index", "err")
        ELSE IF r.exc # "" THEN Raised(r.exc)
        ELSE IF Len(r.val) = 1 THEN Redirect("teacher", "")
        ELSE Render("results", r.val)

\* teacher(uuid): the answer to GET /teacher/<uuid>
teacher(resp) ==
    LET r == fetch_teacher_schedule(resp)
        schedule == Field(Field(r.val, "data", EmptyDict), "schedule", <<>>)
    IN  IF r.exc = "HTTPError" /\ r.status = 401 THEN Redirect("index", "err")
        ELSE IF r.exc # "" THEN Raised(r.exc)
        ELSE IF \E i \in 1..Len(schedule) : ~Sortable(schedule[i]) THEN Raised("TypeError")
        ELSE LET sorted == schedule_sorted(schedule)
             IN  Render("teacher", [schedule |-> sorted, timetable_rows |-> timetable_rows(sorted)])

\* api_teacher(uuid): the answer to GET /api/teacher/<uuid>
api_teacher(resp) ==
    LET r == fetch_teacher_schedule(resp)
    IN  IF r.exc # "" THEN Raised(r.exc) ELSE Json(r.val)

(***************************************************************************)
(* SpecApp: one request to the web application                             *)
(***************************************************************************)
\* how many lessons a teacher's schedule holds at most
MaxItems == 2

\* the time slots, days and week tags of the lessons the upstream may send
Slots == {[startTime |-> <<48, 56, 58, 51, 48>>, endTime |-> <<49, 48, 58, 48, 53>>, time |-> <<1>>],
          [startTime |-> <<49, 48, 58, 49, 53>>, time |-> <<2>>]}
Days == {[x \in {} |-> <<>>], [day |-> <<>>], [day |-> <<1>>], [day |-> <<7>>], [day |-> <<8>>]}
Weeks == {[x \in {} |-> <<>>], [week |-> S_ch], [week |-> <<90, 78>>], [week |-> <<111, 100, 100>>]}
ItemPool == {s @@ d @@ w : s \in Slots, d \in Days, w \in Weeks}

\* the rows the upstream search may send
RowPool == {[title |-> Teacher.IvanovII_dot, uuid |-> <<49>>, type |-> <<116, 101, 97, 99, 104, 101, 114>>],
            [title |-> Teacher.PetrovPP, uuid |-> <<50>>, type |-> <<116, 101, 97, 99, 104, 101, 114>>],
            [title |-> <<1048, 1059, 51, 45, 52, 53>>, uuid |-> <<51>>, type |-> <<103, 114, 111, 117, 112>>]}

\* the replies that are failures of the upstream
UpstreamFailures ==
    {NoReply("refused"), NoReply("silent"), Upstream(401, TRUE, <<>>),
     Upstream(403, TRUE, <<>>), Upstream(500, FALSE, <<>>), Upstream(200, FALSE, <<>>)}

SchedulePool ==
    {Upstream(200, TRUE, EmptyDict)} \cup
    {Upstream(200, TRUE, [data |-> [schedule |-> sch]])
        : sch \in UNION {[1..n -> ItemPool] : n \in 0..MaxItems}}

SearchPool ==
    {Upstream(200, TRUE, rows) : rows \in UNION {[1..n -> RowPool] : n \in 0..2}}

AppInit ==
    /\ \/ /\ route \in {[endpoint |-> "search", q |-> q] : q \in {<<>>, <<Ch.sp>>, Query.Ivanov}}
          /\ upstream \in UpstreamFailures \cup SearchPool
       \/ /\ route \in {[endpoint |-> e, q |-> <<>>] : e \in {"teacher", "api_teacher"}}
          /\ upstream \in UpstreamFailures \cup SchedulePool
    /\ outcome = EmptyDict
    /\ astage = "request"
    /\ NormOff /\ SearchOff /\ ParseOff /\ BuildOff /\ LessonOff

Answer(o) ==
    /\ outcome' = o
    /\ astage' = "done"
    /\ UNCHANGED <<route, upstream>>
    /\ UNCHANGED AppOthers

\* GET /search with an empty query: back to the index page
SearchEmptyQuery ==
    /\ astage = "request" /\ route.endpoint = "search"
    /\ Strip(route.q, WS) = <<>>
    /\ Answer(search(route.q, upstream))

\* GET /search: the upstream answers 401
SearchAuthRequired ==
    /\ astage = "request" /\ route.endpoint = "search"
    /\ Strip(route.q, WS) # <<>>
    /\ upstream.status = 401
    /\ Answer(search(route.q, upstream))

\* GET /search: the fetch raises anything else
SearchRaised ==
    /\ astage = "request" /\ route.endpoint = "search"
    /\ Strip(route.q, WS) # <<>>
    /\ upstream.status # 401
    /\ search_teachers(upstream).exc # ""
    /\ Answer(search(route.q, upstream))

\* GET /search: one teacher found, or the list of results
SearchAnswered ==
    /\ astage = "request" /\ route.endpoint = "search"
    /\ Strip(route.q, WS) # <<>>
    /\ search_teachers(upstream).exc = ""
    /\ Answer(search(route.q, upstream))

\* GET /teacher/<uuid>: the upstream answers 401
TeacherAuthRequired ==
    /\ astage = "request" /\ route.endpoint = "teacher"
    /\ upstream.status = 401
    /\ Answer(teacher(upstream))

\* GET /teacher/<uuid>: the fetch, or the sort of the schedule, raises
TeacherRaised ==
    /\ astage = "request" /\ route.endpoint = "teacher"
    /\ upstream.status # 401
    /\ teacher(upstream).kind = "raised"
    /\ Answer(teacher(upstream))

\* GET /teacher/<uuid>: the timetable is rendered
TeacherRendered ==
    /\ astage = "request" /\ route.endpoint = "teacher"
    /\ teacher(upstream).kind = "render"
    /\ Answer(teacher(upstream))

\* GET /api/teacher/<uuid>: the fetch raises
ApiTeacherRaised ==
    /\ astage = "request" /\ route.endpoint = "api_teacher"
    /\ fetch_teacher_schedule(upstream).exc # ""
    /\ Answer(api_teacher(upstream))

\* GET /api/teacher/<uuid>: the data is passed on
ApiTeacherAnswered ==
    /\ astage = "request" /\ route.endpoint = "api_teacher"
    /\ fetch_teacher_schedule(upstream).exc = ""
    /\ Answer(api_teacher(upstream))

AppNext ==
    \/ SearchEmptyQuery
    \/ SearchAuthRequired
    \/ SearchRaised
    \/ SearchAnswered
    \/ TeacherAuthRequired
    \/ TeacherRaised
    \/ TeacherRendered
    \/ ApiTeacherRaised
    \/ ApiTeacherAnswered

SpecApp == AppInit /\ [][AppNext]_vars

\* the teacher view was rendered
Rendered == astage = "done" /\ route.endpoint = "teacher" /\ outcome.kind = "render"

\* how often x stands in the list xs
CountIn(xs, x) == Cardinality({i \in 1..Len(xs) : xs[i] = x})

\* the places of the emitted grid where the item x stands: row, day column,
\* week bucket (for "other": its position there), position in the bucket
Places(rows, x) ==
    {p \in (1..Len(rows)) \X (1..7) \X {"all", "ch", "zn"} \X (1..MaxItems + 1) :
        /\ p[4] <= Len(rows[p[1]].cells[p[2]][p[3]])
        /\ rows[p[1]].cells[p[2]][p[3]][p[4]] = x}
    \cup
    {p \in (1..Len(rows)) \X (1..7) \X (1..MaxItems + 1) \X (1..MaxItems + 1) :
        /\ p[3] <= Len(rows[p[1]].cells[p[2]].other)
        /\ p[4] <= Len(rows[p[1]].cells[p[2]].other[p[3]].items)
        /\ rows[p[1]].cells[p[2]].other[p[3]].items[p[4]] = x}

\* C11: in the rendered teacher view every lesson item of the schedule stands
\* in exactly one cell of the emitted grid (one row, one day column, one week
\* bucket; an item sent n times stands in n places), whatever its day and week
\* fields are, and every emitted row has a cell for each of the days 1..7.
C11_EveryItemInOneCell ==
    Rendered =>
        /\ \A i \in 1..Len(outcome.body.schedule) :
              Cardinality(Places(outcome.body.timetable_rows, outcome.body.schedule[i]))
                = CountIn(outcome.body.schedule, outcome.body.schedule[i])
        /\ \A r \in 1..Len(outcome.body.timetable_rows) :
              DOMAIN outcome.body.timetable_rows[r].cells = 1..7

(***************************************************************************)
(* Spec under fairness: a step that can be taken is taken.  The futures of *)
(* build_index run on pool threads and as_completed hands each one over as *)
(* soon as it is done; the loop of aggregate_teachers_from_groups goes on  *)
(* as soon as get_group_schedule returns or raises.  A request that is     *)
(* never answered ends only through a timeout, where the code sets one.    *)
(***************************************************************************)
FairSpec == Spec /\ WF_vars(Next)

\* the run is over: it exited, saved, died of an exception, or returned
Terminated == pc \in {"exit2", "saved", "crashed", "returned"}

\* C12: every run of build_index and of aggregate_teachers_from_groups
\* terminates, over any list of sources, even if a source never answers.
C12_EveryRunTerminates == <>Terminated

\* the keys search_index chooses from: those that contain the canonical
\* query or, when there are none, those that contain its first token
Candidates ==
    IF \E k \in idx : Matches(k, query) THEN {k \in idx : Matches(k, query)}
    ELSE {k \in idx : FirstTokenMatches(k, query)}

\* C13: the result of a search holds at most topn keys, all of them matching
\* keys, in ascending order of (length, then code points); every matching key
\* left out comes after every key of the result in that order, and keys are
\* left out only when the result is full.
C13_SortedAndCapped ==
    Searched =>
        /\ Len(result) <= topn
        /\ \A i \in 1..Len(result) : result[i] \in Candidates
        /\ \A i, j \in 1..Len(result) : i < j => KeyLess(result[i], result[j])
        /\ \A k \in Candidates \ {result[i] : i \in 1..Len(result)} :
              /\ Len(result) = topn
              /\ \A i \in 1..Len(result) : KeyLess(result[i], k)

\* a printed result cut to one key, where the key left out is the first of
\* the two alphabetically and the longer one
C13_Witness ==
    /\ sstage = "printed"
    /\ topn = 1 /\ Len(result) = 1
    /\ \E k \in Candidates : k # result[1] /\ LexLess(k, result[1])

\* the week tag of an item is none of the standard ones (all, ch, zn; no tag
\* counts as all)
OddWeekTag(item) ==
    /\ Field(item, "week", <<>>) # <<>>
    /\ Lower(item.week) \notin {S_all, S_ch, S_zn}

\* C14: in the rendered teacher view, a lesson of one of the days 1..7 whose
\* week tag is not a standard one stands, in its cell, in a bucket of the
\* list "other" whose key and label are the tag as it was sent, and does not
\* stand in the bucket "all".
C14_OddTagInOtherBucket ==
    Rendered =>
        \A i \in 1..Len(outcome.body.schedule) :
            LET item == outcome.body.schedule[i]
                rows == outcome.body.timetable_rows
            IN  (OddWeekTag(item) /\ day_key(item) \in 1..7) =>
                    \E r \in 1..Len(rows) :
                        LET cell == rows[r].cells[day_key(item)]
                        IN  /\ <<rows[r].start, rows[r].end, rows[r].pair>> = time_key(item)
                            /\ \E o \in 1..Len(cell.other) :
                                  /\ cell.other[o].key = item.week
                                  /\ cell.other[o].label = item.week
                                  /\ CountIn(cell.other[o].items, item) > 0
                            /\ CountIn(cell.all, item) = 0

\* what the handler of an endpoint answers when the upstream does resp
HandlerAnswer(rt, resp) ==
    CASE rt.endpoint = "search" -> search(rt.q, resp)
      [] rt.endpoint = "teacher" -> teacher(resp)
      [] rt.endpoint = "api_teacher" -> api_teacher(resp)

\* the upstream answered the fetch of this request with 401
AuthRequired ==
    /\ astage = "done"
    /\ route.endpoint = "search" => Strip(route.q, WS) # <<>>
    /\ upstream.kind = "reply" /\ upstream.status = 401

\* C15: when the upstream answers the fetch of a request with 401, what the
\* handler answers differs from what it answers to every other failure of
\* the fetch (no connection, no reply in time, another error status, a body
\* that is no JSON).
C15_AuthSurfacedDistinctly ==
    AuthRequired =>
        \A f \in UpstreamFailures :
            (f.kind # "reply" \/ f.status # 401) => HandlerAnswer(route, f) # outcome

\* C16: a run of build_index that resolved no URL at all exits with status 2
\* in its first step, which starts no fetch and writes neither the index
\* file nor the groups file (what an earlier run saved stays as it is), and
\* the run does nothing after that exit.
C16_NoUrlsExitsUntouched ==
    [][/\ (prog = "build_index" /\ pc = "start" /\ served = <<>>) =>
             /\ pc' = "exit2"
             /\ index_file' = index_file /\ groups_file' = groups_file
             /\ pending' = {} /\ completed' = <<>>
       /\ pc' = "exit2" => served = <<>>
       /\ pc # "exit2"]_vars

\* a run without URLs has exited, and the two files of an earlier run are
\* still there
C16_Witness ==
    /\ prog = "build_index" /\ pc = "exit2"
    /\ served = <<>>
    /\ index_file = <<OldIndex>> /\ groups_file = <<OldGroups>>

\* C17: every lesson parse_ics has emitted has a non-empty subject, also
\* when the summary of its event begins with a lesson-type marker.
C17_SubjectNeverEmpty ==
    \A i \in 1..Len(lessons) : lessons[i].subject # <<>>

(***************************************************************************)
(* _parse_lesson: the start and end time of an API lesson item             *)
(***************************************************************************)
\* a or b, for numbers that may be None: <<>> is None, <<n>> the number n
PyOr(a, b) == IF a # <<>> /\ a # <<0>> THEN a ELSE b

\* f"{int(n):02d}"
Pad2(n) == IF n < 10 THEN <<48, 48 + n>> ELSE Str(n)

\* fmt_time(h, m)
fmt_time(h, m) ==
    IF h = <<>> THEN <<>>
    ELSE Pad2(h[1]) \o <<Ch.colon>> \o Pad2(PyOr(m, <<0>>)[1])

\* the start_time and end_time _parse_lesson gives the Lesson of an item
parse_lesson_times(item) ==
    LET start_hour == PyOr(Field(item, "startTimeHourNum", <<>>), Field(item, "startHour", <<>>))
        start_min == PyOr(PyOr(Field(item, "startTimeMinNum", <<>>),
                               Field(item, "startMinute", <<>>)), <<0>>)
        end_hour == PyOr(Field(item, "endTimeHourNum", <<>>), Field(item, "endHour", <<>>))
        end_min == PyOr(PyOr(Field(item, "endTimeMinNum", <<>>),
                             Field(item, "endMinute", <<>>)), <<0>>)
    IN  [start_time |-> fmt_time(start_hour, start_min),
         end_time |-> fmt_time(end_hour, end_min)]

\* a field of an item: missing, null, or one of the numbers ns
Maybe(key, ns) == {[x \in {} |-> <<>>], key :> <<>>} \cup {key :> <<n>> : n \in ns}

\* the lesson items of the API: any hour and minute of the day for the
\* start, a few for the end
LessonItems ==
    {sh @@ sm @@ eh @@ em :
        sh \in Maybe("startTimeHourNum", 0..23), sm \in Maybe("startTimeMinNum", 0..59),
        eh \in Maybe("endTimeHourNum", {0, 23}), em \in {[x \in {} |-> <<>>], "endTimeMinNum" :> <<5>>}}

LessonInit ==
    /\ raw_item \in LessonItems
    /\ start_time = <<>> /\ end_time = <<>>
    /\ lstage = "item"
    /\ NormOff /\ SearchOff /\ ParseOff /\ BuildOff /\ AppOff

\* _parse_lesson(item): a lesson with both times
ParseLessonTimed ==
    /\ lstage = "item"
    /\ \E t \in {parse_lesson_times(raw_item)} :
         /\ t.start_time # <<>> /\ t.end_time # <<>>
         /\ start_time' = t.start_time
         /\ end_time' = t.end_time
    /\ lstage' = "lesson"
    /\ UNCHANGED raw_item
    /\ UNCHANGED LessonOthers

\* _parse_lesson(item): a lesson one of whose times is the empty string
ParseLessonUntimed ==
    /\ lstage = "item"
    /\ \E t \in {parse_lesson_times(raw_item)} :
         /\ t.start_time = <<>> \/ t.end_time = <<>>
         /\ start_time' = t.start_time
         /\ end_time' = t.end_time
    /\ lstage' = "lesson"
    /\ UNCHANGED raw_item
    /\ UNCHANGED LessonOthers

LessonNext ==
    \/ ParseLessonTimed
    \/ ParseLessonUntimed

SpecLesson == LessonInit /\ [][LessonNext]_vars

\* "HH:MM" for the hour h and the minute m
HHMM(h, m) == <<48 + (h \div 10), 48 + (h % 10), 58, 48 + (m \div 10), 48 + (m % 10)>>

\* the time an item should get from its hour and minute fields: "" without
\* an hour (missing or null), else "HH:MM" with minute 0 if there is none
ExpectedTime(item, hour, minute) ==
    IF Field(item, hour, <<>>) = <<>> THEN <<>>
    ELSE HHMM(item[hour][1],
              IF Field(item, minute, <<>>) = <<>> THEN 0 ELSE item[minute][1])

\* C18: the Lesson of an API item has the start (end) time "HH:MM", zero
\* padded, of its start (end) hour and minute fields, for every hour 0..23
\* and minute 0..59, the minute counting as 0 when it is absent; the time is
\* the empty string only when the hour field is missing.
C18_ZeroPaddedTime ==
    lstage = "lesson" =>
        /\ start_time = ExpectedTime(raw_item, "startTimeHourNum", "startTimeMinNum")
        /\ end_time = ExpectedTime(raw_item, "endTimeHourNum", "endTimeMinNum")

\* the event that the END:VEVENT of line k closes, made of nothing but the
\* lines between it and its own BEGIN:VEVENT (empty if the line closes none:
\* no BEGIN:VEVENT before it, or one that an earlier END:VEVENT has closed)
OwnEvent(k) ==
    [key \in {x \in DOMAIN KEYS : OwnValue(k, x) # <<>>} |-> OwnValue(k, key)[1]]

\* C19: a step of parse_ics at an END:VEVENT line adds exactly the lessons
\* of the event made of the lines since that line's own BEGIN:VEVENT, and
\* no other step adds or removes a lesson.  So no field goes from one event
\* to another, an event is flushed once (a further END:VEVENT adds
\* nothing), and an event that is dropped or never closed leaves the
\* lessons of the other events as they are.
C19_NoLeakBetweenEvents ==
    [][IF pstage = "loop" /\ ln_no <= Len(lines) /\ StartsWith(lines[ln_no], S_END)
       THEN lessons' = lessons \o flush_event(OwnEvent(ln_no), group_code)
       ELSE lessons' = lessons]_vars

\* a finished parse of a payload where an event with an end time was never
\* closed and the event after it, closed, has a start time and no end time
\* of its own: nothing was emitted
C19_Witness ==
    /\ pstage = "done"
    /\ lessons = <<>>
    /\ \E j, k, e \in 1..Len(lines) :
         /\ j < k /\ k < e
         /\ StartsWith(lines[j], S_BEGIN) /\ StartsWith(lines[k], S_BEGIN)
         /\ StartsWith(lines[e], S_END)
         /\ \A x \in (j + 1)..(e - 1) : ~StartsWith(lines[x], S_END)
         /\ \E x \in (j + 1)..(k - 1) :
               FindCh(lines[x], Ch.colon, 0) >= 0 /\ LineKey(lines[x]) = KEYS["DTEND"]
         /\ UsableTime(e, "DTSTART")
         /\ OwnValue(e, "DTEND") = <<>>
=============================================================================
